---- MODULE Spec2Model ----
(***************************************************************************)
(* Model of the MediaWatchdog analysis pipeline:                           *)
(*   - src/utils/mlDetection.ts   (classifier adapter, cached classifier)  *)
(*   - src/utils/analysisUtils.ts (score generator)                        *)
(*   - src/pages/Analyze.tsx      (upload page state and handlers)         *)
(*   - WebcamAnalyzer component   (webcam capture and override)            *)
(*   - AnalysisMetrics component  (colouring of the specific metrics)      *)
(*                                                                         *)
(* Numbers.  Every percentage is kept in thousandths of a percent (an      *)
(* authenticity of 90.5 is 90500), seeds in thousandths (seed * 1000 is    *)
(* the integer hash + size % 1000) and sines in thousandths (-1000..1000), *)
(* so that base + sin * amplitude is exact integer arithmetic.  Math.sin   *)
(* is evaluated by a fixed-point approximation (Bhaskara), a deterministic *)
(* function of its argument with range [-1, 1].                            *)
(* Strings that the code inspects (file names) are sequences of character  *)
(* codes, so charCodeAt and includes are computed, not assumed.            *)
(* analysisDate (new Date()) is not modelled.                              *)
(***************************************************************************)
EXTENDS Integers, Sequences, FiniteSets, TLC

VARIABLES
    classifier,       \* mlDetection.ts: module variable `classifier`
    calls,            \* pending/settled calls of generateAnalysisResults, per call slot
    prev,             \* the last call handed back to a direct caller (input, classifier tuple, result)
    activeTab,        \* Analyze: activeTab
    selectedFile,     \* Analyze: selectedFile
    isAnalyzing,      \* Analyze: isAnalyzing
    analysisProgress, \* Analyze: analysisProgress, in whole percent
    analysisResults,  \* Analyze: analysisResults
    fileTask,         \* Analyze.handleAnalyze: position of the handler and its timers
    cam,              \* WebcamAnalyzer: component state, position and timers of handleAnalyzeWebcam
    last,             \* the handler that ran last and the toast it raised
    report            \* the report text a direct caller made from the result it holds

vars == <<classifier, calls, prev, activeTab, selectedFile, isAnalyzing,
          analysisProgress, analysisResults, fileTask, cam, last, report>>

uiVars == <<activeTab, selectedFile, isAnalyzing, analysisProgress, analysisResults,
           fileTask, cam, last>>

----------------------------------------------------------------------------
(* Strings as character codes *)

\* "webcam-capture"
StrWebcamCapture == <<119, 101, 98, 99, 97, 109, 45, 99, 97, 112, 116, 117, 114, 101>>
\* "webcam"
StrWebcam == <<119, 101, 98, 99, 97, 109>>
\* ".jpg"
StrDotJpg == <<46, 106, 112, 103>>
\* ".mp4"
StrDotMp4 == <<46, 109, 112, 52>>
\* ".mp3"
StrDotMp3 == <<46, 109, 112, 51>>

\* "webcam-capture.jpg": the name WebcamAnalyzer gives every captured frame
NameWebcamCapture == StrWebcamCapture \o StrDotJpg
\* "webcam-captuer.jpg": same characters, holds "webcam" but not "webcam-capture"
NameWebcamCaptuer == <<119, 101, 98, 99, 97, 109, 45, 99, 97, 112, 116, 117, 101, 114>> \o StrDotJpg
\* "wbecam-captuer.jpg": same characters, holds neither
NameWbecamCaptuer == <<119, 98, 101, 99, 97, 109, 45, 99, 97, 112, 116, 117, 101, 114>> \o StrDotJpg
\* "ab.png"
NameAb == <<97, 98, 46, 112, 110, 103>>
\* "ba.png"
NameBa == <<98, 97, 46, 112, 110, 103>>
\* "test.jpg"
NameTest == <<116, 101, 115, 116>> \o StrDotJpg

\* "clip.mp4"
NameClip == <<99, 108, 105, 112>> \o StrDotMp4
\* "song.mp3"
NameSong == <<115, 111, 110, 103>> \o StrDotMp3

Names == {NameWebcamCapture, NameWebcamCaptuer, NameWbecamCaptuer, NameAb, NameBa,
          NameTest, NameClip}

\* String.prototype.includes
Includes(s, sub) ==
    \E i \in 0..(Len(s) - Len(sub)) : SubSeq(s, i + 1, i + Len(sub)) = sub

\* fileName.split('').reduce((acc, char) => acc + char.charCodeAt(0), 0)
RECURSIVE CharSum(_)
CharSum(s) == IF s = <<>> THEN 0 ELSE Head(s) + CharSum(Tail(s))

----------------------------------------------------------------------------
(* Arithmetic *)

\* Math.sin of an angle given in thousandths of a radian, in thousandths.
SinMilli(a) ==
    LET x == a % 6283
        h == IF x > 3142 THEN x - 3142 ELSE x
        p == h * (3142 - h)
        v == (16 * p) \div ((49360820 - 4 * p) \div 1000)
    IN  IF x > 3142 THEN 0 - v ELSE v

\* base + Math.sin(seed * k) * amp, in thousandths
Wave(base, amp, k, seed) == base * 1000 + amp * SinMilli(seed * k)

\* Math.round of a non-negative value in thousandths, as an integer
Round(v) == (v + 500) \div 1000

\* `${n}` of a non-negative integer
Interpolate(n) == ToString(n)

----------------------------------------------------------------------------
(* Inputs *)

MediaTypes == {"video", "audio", "image"}

\* no AnalysisResult (null)
NoResult == [mediaType |-> "none"]

\* fileData absent (undefined / null)
NoFile == [kind |-> "none"]

\* A File: its name, its size in bytes, its MIME type, and `score`, the top
\* label score (in percent, 0 also standing for a missing score) that the
\* image classifier computes from its bytes.
MkFile(name, size, mime, score) ==
    [kind |-> "file", name |-> name, size |-> size, mime |-> mime, score |-> score]

\* the MIME type a file name's extension stands for
MimeOf(name) ==
    IF Includes(name, StrDotJpg) THEN "image/jpeg"
    ELSE IF Includes(name, StrDotMp4) THEN "video/mp4"
    ELSE IF Includes(name, StrDotMp3) THEN "audio/mpeg"
    ELSE "image/png"

\* the files fed to generateAnalysisResults: a File is passed together with
\* its own name (selectedFile.name, selectedFile / file.name, file)
FilesNamed(name) ==
    {MkFile(name, 1500, MimeOf(name), 61),
     MkFile(name, 40777, MimeOf(name), 60),
     MkFile(name, 2250, MimeOf(name), 0)}

----------------------------------------------------------------------------
(* mlDetection.ts *)

\* `classifier` before the first successful initialization
Null == "null"

\* isWebcam, as computed in both branches of analyzeImageWithML
IsWebcam(imageData) ==
    /\ imageData.kind = "file"
    /\ imageData.name # <<>>
    /\ (Includes(imageData.name, StrWebcamCapture) \/ Includes(imageData.name, StrWebcam))

\* a score of exactly 60 counts as a deepfake
MlSuccess_from60(imageData) ==
    LET confidenceScore == imageData.score * 1000
        isDeepfake == IF IsWebcam(imageData) THEN FALSE ELSE confidenceScore >= 60000
    IN  [isDeepfake |-> isDeepfake,
         confidence |-> confidenceScore,
         features |-> [artificialPatterns |-> IF isDeepfake THEN confidenceScore ELSE 20000,
                       naturalFeatures    |-> IF isDeepfake THEN 20000 ELSE confidenceScore,
                       textureConsistency |-> IF isDeepfake THEN 30000 ELSE 85000,
                       lighting           |-> IF isDeepfake THEN 25000 ELSE 90000]]

\* the tuple returned after a successful inference
MlSuccess(imageData) ==
    LET confidenceScore == imageData.score * 1000
        isDeepfake == IF IsWebcam(imageData) THEN FALSE ELSE confidenceScore > 60000
    IN  [isDeepfake |-> isDeepfake,
         confidence |-> confidenceScore,
         features |-> [artificialPatterns |-> IF isDeepfake THEN confidenceScore ELSE 20000,
                       naturalFeatures    |-> IF isDeepfake THEN 20000 ELSE confidenceScore,
                       textureConsistency |-> IF isDeepfake THEN 30000 ELSE 85000,
                       lighting           |-> IF isDeepfake THEN 25000 ELSE 90000]]

MlFallback_suspicious(imageData) ==
    [isDeepfake |-> TRUE,
     confidence |-> 65000,
     features |-> [artificialPatterns |-> 75000, naturalFeatures |-> 30000,
                   textureConsistency |-> 35000, lighting |-> 40000]]

\* a failure is reported as "no signal"
MlFallback_unknown(imageData) ==
    [isDeepfake |-> FALSE,
     confidence |-> 0,
     features |-> [artificialPatterns |-> 0, naturalFeatures |-> 0,
                   textureConsistency |-> 0, lighting |-> 0]]

\* the tuple returned from the catch block
MlFallback(imageData) ==
    LET isWebcam == IsWebcam(imageData)
    IN  [isDeepfake |-> ~isWebcam,
         confidence |-> IF isWebcam THEN 95000 ELSE 65000,
         features |-> [artificialPatterns |-> IF isWebcam THEN 15000 ELSE 75000,
                       naturalFeatures    |-> IF isWebcam THEN 90000 ELSE 30000,
                       textureConsistency |-> IF isWebcam THEN 85000 ELSE 35000,
                       lighting           |-> IF isWebcam THEN 90000 ELSE 40000]]

----------------------------------------------------------------------------
(* analysisUtils.ts: generateAnalysisResults *)

\* the initial value of mlResults
DefaultMl ==
    [isDeepfake |-> FALSE,
     confidence |-> 0,
     features |-> [artificialPatterns |-> 0, naturalFeatures |-> 0,
                   textureConsistency |-> 0, lighting |-> 0]]

\* the forced-authentic value of mlResults
ForcedMl ==
    [isDeepfake |-> FALSE,
     confidence |-> 90000,
     features |-> [artificialPatterns |-> 12000, naturalFeatures |-> 92000,
                   textureConsistency |-> 95000, lighting |-> 90000]]

\* forceAuthentic is not looked at
UsesClassifier_ignoresForce(type, fileData, forceAuthentic) ==
    /\ fileData.kind = "file"
    /\ type \in {"image", "video"}

\* the condition under which the classifier adapter is awaited
UsesClassifier(type, fileData, forceAuthentic) ==
    /\ fileData.kind = "file"
    /\ type \in {"image", "video"}
    /\ ~forceAuthentic

\* a hash that weighs each character by its position
RECURSIVE WeightedSum(_)
WeightedSum(s) == IF s = <<>> THEN 0 ELSE Len(s) * Head(s) + WeightedSum(Tail(s))

Seed_positional(fileName, fileData) ==
    WeightedSum(fileName) + (IF fileData.kind = "file" THEN fileData.size % 1000 ELSE 0)

\* seed, in thousandths: hash / 1000 + (size % 1000) / 1000
Seed(fileName, fileData) ==
    CharSum(fileName) + (IF fileData.kind = "file" THEN fileData.size % 1000 ELSE 0)

\* the override is skipped
OverrideMl_never(ml, forceAuthentic) == ml

\* mlResults after the forced-authentic override
OverrideMl(ml, forceAuthentic) == IF forceAuthentic THEN ForcedMl ELSE ml

IsForcedBranch_flagOnly(fileName, forceAuthentic) == forceAuthentic

\* the branch that always reports an authentic capture
IsForcedBranch(fileName, forceAuthentic) ==
    forceAuthentic \/ Includes(fileName, StrWebcamCapture)

\* videos go through the branch of the other uploads
Authenticity_sameForVideo(type, fileName, forceAuthentic, ml, seed) ==
    IF IsForcedBranch(fileName, forceAuthentic) THEN Wave(90, 5, 5, seed)
    ELSE IF ml.confidence > 0
         THEN (IF ml.isDeepfake THEN Wave(35, 15, 5, seed) ELSE Wave(75, 15, 5, seed))
         ELSE Wave(50, 40, 5, seed)

\* authenticity, by branch
Authenticity(type, fileName, forceAuthentic, ml, seed) ==
    IF IsForcedBranch(fileName, forceAuthentic) THEN Wave(90, 5, 5, seed)
    ELSE IF type = "video"
    THEN IF ml.confidence > 0
         THEN (IF ml.isDeepfake THEN Wave(35, 15, 5, seed) ELSE Wave(80, 10, 5, seed))
         ELSE Wave(50, 40, 5, seed)
    ELSE IF ml.confidence > 0
         THEN (IF ml.isDeepfake THEN Wave(35, 15, 5, seed) ELSE Wave(75, 15, 5, seed))
         ELSE Wave(50, 40, 5, seed)

ManipulationProbability(authenticity) == 100000 - authenticity

\* without a classifier signal the verdict threshold is 40
Verdict_above40(fileName, forceAuthentic, ml, manipulationProbability) ==
    IF IsForcedBranch(fileName, forceAuthentic) THEN FALSE
    ELSE IF ml.confidence > 0 THEN ml.isDeepfake
    ELSE manipulationProbability > 40000

\* isDeepfake
Verdict(fileName, forceAuthentic, ml, manipulationProbability) ==
    IF IsForcedBranch(fileName, forceAuthentic) THEN FALSE
    ELSE IF ml.confidence > 0 THEN ml.isDeepfake
    ELSE manipulationProbability > 60000

Confidence_wide(seed) == Wave(75, 30, 7, seed)

Confidence(seed) == Wave(75, 15, 7, seed)

\* the feature is used even when it is zero
OrElse_always(feature, formula) == feature

\* feature || formula
OrElse(feature, formula) == IF feature # 0 THEN feature ELSE formula

VideoMetrics(forceAuthentic, ml, isDeepfake, seed) ==
    [frameConsistency |->
        IF forceAuthentic THEN Wave(90, 5, 11, seed)
        ELSE OrElse(ml.features.textureConsistency,
                    IF isDeepfake THEN Wave(55, 15, 11, seed) ELSE Wave(85, 10, 11, seed)),
     facialAnomaly |->
        IF forceAuthentic THEN Wave(15, 5, 13, seed)
        ELSE OrElse(ml.features.artificialPatterns,
                    IF isDeepfake THEN Wave(67, 20, 13, seed) ELSE Wave(25, 15, 13, seed)),
     audioVideoSync |->
        IF forceAuthentic THEN Wave(92, 5, 17, seed)
        ELSE (IF isDeepfake THEN Wave(48, 20, 17, seed) ELSE Wave(88, 10, 17, seed)),
     temporalCoherence |->
        IF forceAuthentic THEN Wave(88, 5, 19, seed)
        ELSE OrElse(ml.features.textureConsistency,
                    IF isDeepfake THEN Wave(52, 15, 19, seed) ELSE Wave(82, 10, 19, seed)),
     neuralInconsistency |->
        IF forceAuthentic THEN Wave(18, 5, 23, seed)
        ELSE OrElse(ml.features.artificialPatterns,
                    IF isDeepfake THEN Wave(75, 15, 23, seed) ELSE Wave(30, 20, 23, seed))]

AudioMetrics(forceAuthentic, isDeepfake, seed) ==
    [voicePrintAuthenticity |->
        IF forceAuthentic THEN Wave(90, 5, 11, seed)
        ELSE (IF isDeepfake THEN Wave(45, 15, 11, seed) ELSE Wave(85, 10, 11, seed)),
     backgroundNoiseAnalysis |->
        IF forceAuthentic THEN Wave(20, 5, 13, seed)
        ELSE (IF isDeepfake THEN Wave(60, 15, 13, seed) ELSE Wave(25, 10, 13, seed)),
     frequencyAnomalies |->
        IF forceAuthentic THEN Wave(15, 5, 17, seed)
        ELSE (IF isDeepfake THEN Wave(72, 15, 17, seed) ELSE Wave(30, 10, 17, seed)),
     prosodyConsistency |->
        IF forceAuthentic THEN Wave(88, 5, 19, seed)
        ELSE (IF isDeepfake THEN Wave(48, 15, 19, seed) ELSE Wave(82, 10, 19, seed)),
     spectrogramPatterns |->
        IF forceAuthentic THEN Wave(22, 5, 23, seed)
        ELSE (IF isDeepfake THEN Wave(70, 15, 23, seed) ELSE Wave(32, 15, 23, seed))]

ImageMetrics(forceAuthentic, ml, isDeepfake, seed) ==
    [metadataConsistency |->
        IF forceAuthentic THEN Wave(90, 5, 11, seed)
        ELSE OrElse(ml.features.naturalFeatures,
                    IF isDeepfake THEN Wave(55, 15, 11, seed) ELSE Wave(80, 15, 11, seed)),
     pixelAnomalies |->
        IF forceAuthentic THEN Wave(15, 5, 13, seed)
        ELSE OrElse(ml.features.artificialPatterns,
                    IF isDeepfake THEN Wave(65, 20, 13, seed) ELSE Wave(30, 15, 13, seed)),
     lightingConsistency |->
        IF forceAuthentic THEN Wave(92, 5, 17, seed)
        ELSE OrElse(ml.features.lighting,
                    IF isDeepfake THEN Wave(45, 20, 17, seed) ELSE Wave(75, 15, 17, seed)),
     textureAnalysis |->
        IF forceAuthentic THEN Wave(88, 5, 19, seed)
        ELSE OrElse(ml.features.textureConsistency,
                    IF isDeepfake THEN Wave(40, 15, 19, seed) ELSE Wave(82, 10, 19, seed)),
     neuralInconsistency |->
        IF forceAuthentic THEN Wave(20, 5, 23, seed)
        ELSE OrElse(ml.features.artificialPatterns,
                    IF isDeepfake THEN Wave(72, 15, 23, seed) ELSE Wave(25, 15, 23, seed))]

SpecificMetrics(type, forceAuthentic, ml, isDeepfake, seed) ==
    IF type = "video" THEN VideoMetrics(forceAuthentic, ml, isDeepfake, seed)
    ELSE IF type = "audio" THEN AudioMetrics(forceAuthentic, isDeepfake, seed)
    ELSE ImageMetrics(forceAuthentic, ml, isDeepfake, seed)

\* detailedExplanation: the template chosen and the rounded values it quotes,
\* each with the specificMetrics field it was read from
Explanation(type, fileName, forceAuthentic, isDeepfake, m) ==
    LET q(f) == [field |-> f, percent |-> Round(m[f])]
        base ==
          IF type = "video"
          THEN IF isDeepfake
               THEN [template |-> "video-deepfake",
                     quotes |-> <<q("temporalCoherence"), q("facialAnomaly"), q("audioVideoSync")>>]
               ELSE [template |-> "video-authentic",
                     quotes |-> <<q("frameConsistency"), q("facialAnomaly"), q("audioVideoSync")>>]
          ELSE IF type = "audio"
          THEN IF isDeepfake
               THEN [template |-> "audio-deepfake",
                     quotes |-> <<q("voicePrintAuthenticity"), q("spectrogramPatterns"), q("prosodyConsistency")>>]
               ELSE [template |-> "audio-authentic",
                     quotes |-> <<q("voicePrintAuthenticity"), q("spectrogramPatterns"), q("prosodyConsistency")>>]
          ELSE IF isDeepfake
               THEN [template |-> "image-deepfake",
                     quotes |-> <<q("neuralInconsistency"), q("textureAnalysis"), q("lightingConsistency")>>]
               ELSE [template |-> "image-authentic",
                     quotes |-> <<q("textureAnalysis"), q("lightingConsistency"), q("neuralInconsistency")>>]
    IN  IF Includes(fileName, StrWebcamCapture) \/ forceAuthentic
        THEN IF type = "image"
             THEN [template |-> "webcam-image",
                   quotes |-> <<q("lightingConsistency"), q("textureAnalysis")>>]
             ELSE IF type = "video"
             THEN [template |-> "webcam-video",
                   quotes |-> <<q("frameConsistency"), q("facialAnomaly")>>]
             ELSE base
        ELSE base

\* `${Math.round(confidence - 8)}%-${Math.round(confidence + 8)}%`
ConfidenceInterval(confidence) ==
    Interpolate(Round(confidence - 8000)) \o "%-" \o Interpolate(Round(confidence + 8000)) \o "%"

\* The part of generateAnalysisResults after the classifier stage: `ml` is
\* mlResults as the classifier stage left it.
BuildResult(type, fileName, fileData, forceAuthentic, ml) ==
    LET seed == Seed(fileName, fileData)
        mlResults == OverrideMl(ml, forceAuthentic)
        authenticity == Authenticity(type, fileName, forceAuthentic, mlResults, seed)
        manipulationProbability == ManipulationProbability(authenticity)
        isDeepfake == Verdict(fileName, forceAuthentic, mlResults, manipulationProbability)
        baseMetrics == [authenticity |-> authenticity,
                        manipulationProbability |-> manipulationProbability,
                        confidence |-> Confidence(seed)]
        specificMetrics == SpecificMetrics(type, forceAuthentic, mlResults, isDeepfake, seed)
    IN  [overallResult |-> IF isDeepfake THEN "Potential Deepfake Detected"
                                         ELSE "Verified Authentic",
         isDeepfake |-> isDeepfake,
         baseMetrics |-> baseMetrics,
         specificMetrics |-> specificMetrics,
         mediaType |-> type,
         fileName |-> fileName,
         datasetReference |-> "Based on DFDC & DFD datasets",
         confidenceInterval |-> ConfidenceInterval(baseMetrics.confidence),
         analysisVersion |-> "1.2.1",
         detailedExplanation |-> Explanation(type, fileName, forceAuthentic, isDeepfake, specificMetrics),
         downloadable |-> TRUE]

----------------------------------------------------------------------------
(* analysisUtils.ts: generateDownloadableReport *)

\* the keys of results.specificMetrics in the order Object.entries yields
\* them: the order of the object literal built for the result's media type
\* (assigning to an existing key, as the webcam rewrite does, keeps its place)
MetricKeys(mediaType) ==
    IF mediaType = "video"
    THEN <<"frameConsistency", "facialAnomaly", "audioVideoSync",
           "temporalCoherence", "neuralInconsistency">>
    ELSE IF mediaType = "audio"
    THEN <<"voicePrintAuthenticity", "backgroundNoiseAnalysis", "frequencyAnomalies",
           "prosodyConsistency", "spectrogramPatterns">>
    ELSE <<"metadataConsistency", "pixelAnomalies", "lightingConsistency",
           "textureAnalysis", "neuralInconsistency">>

\* the characters of each key
KeyChars ==
    [frameConsistency |->
        <<102, 114, 97, 109, 101, 67, 111, 110, 115, 105, 115, 116, 101, 110, 99, 121>>,
     facialAnomaly |->
        <<102, 97, 99, 105, 97, 108, 65, 110, 111, 109, 97, 108, 121>>,
     audioVideoSync |->
        <<97, 117, 100, 105, 111, 86, 105, 100, 101, 111, 83, 121, 110, 99>>,
     temporalCoherence |->
        <<116, 101, 109, 112, 111, 114, 97, 108, 67, 111, 104, 101, 114, 101, 110, 99, 101>>,
     neuralInconsistency |->
        <<110, 101, 117, 114, 97, 108, 73, 110, 99, 111, 110, 115, 105, 115, 116, 101, 110, 99, 121>>,
     voicePrintAuthenticity |->
        <<118, 111, 105, 99, 101, 80, 114, 105, 110, 116, 65, 117, 116, 104, 101, 110, 116, 105, 99, 105, 116, 121>>,
     backgroundNoiseAnalysis |->
        <<98, 97, 99, 107, 103, 114, 111, 117, 110, 100, 78, 111, 105, 115, 101, 65, 110, 97, 108, 121, 115, 105, 115>>,
     frequencyAnomalies |->
        <<102, 114, 101, 113, 117, 101, 110, 99, 121, 65, 110, 111, 109, 97, 108, 105, 101, 115>>,
     prosodyConsistency |->
        <<112, 114, 111, 115, 111, 100, 121, 67, 111, 110, 115, 105, 115, 116, 101, 110, 99, 121>>,
     spectrogramPatterns |->
        <<115, 112, 101, 99, 116, 114, 111, 103, 114, 97, 109, 80, 97, 116, 116, 101, 114, 110, 115>>,
     metadataConsistency |->
        <<109, 101, 116, 97, 100, 97, 116, 97, 67, 111, 110, 115, 105, 115, 116, 101, 110, 99, 121>>,
     pixelAnomalies |->
        <<112, 105, 120, 101, 108, 65, 110, 111, 109, 97, 108, 105, 101, 115>>,
     lightingConsistency |->
        <<108, 105, 103, 104, 116, 105, 110, 103, 67, 111, 110, 115, 105, 115, 116, 101, 110, 99, 121>>,
     textureAnalysis |->
        <<116, 101, 120, 116, 117, 114, 101, 65, 110, 97, 108, 121, 115, 105, 115>>]

\* "Authenticity Score"
StrAuthenticityScore ==
    <<65, 117, 116, 104, 101, 110, 116, 105, 99, 105, 116, 121, 32, 83, 99, 111, 114, 101>>
\* "Manipulation Probability"
StrManipulationProbability ==
    <<77, 97, 110, 105, 112, 117, 108, 97, 116, 105, 111, 110, 32,
      80, 114, 111, 98, 97, 98, 105, 108, 105, 116, 121>>
\* "Confidence Score"
StrConfidenceScore ==
    <<67, 111, 110, 102, 105, 100, 101, 110, 99, 101, 32, 83, 99, 111, 114, 101>>

\* s.replace(/([A-Z])/g, ' $1')
RECURSIVE SplitCapitals(_)
SplitCapitals(s) ==
    IF s = <<>> THEN <<>>
    ELSE (IF Head(s) \in 65..90 THEN <<32, Head(s)>> ELSE <<Head(s)>>)
            \o SplitCapitals(Tail(s))

\* String.prototype.trim, of a string whose only white space is the space
RECURSIVE TrimStart(_)
TrimStart(s) == IF s # <<>> /\ Head(s) = 32 THEN TrimStart(Tail(s)) ELSE s

RECURSIVE TrimEnd(_)
TrimEnd(s) ==
    IF s # <<>> /\ s[Len(s)] = 32 THEN TrimEnd(SubSeq(s, 1, Len(s) - 1)) ELSE s

Trim(s) == TrimEnd(TrimStart(s))

\* s.charAt(0).toUpperCase() + s.slice(1)
Capitalize(s) ==
    IF s = <<>> THEN s
    ELSE <<IF s[1] \in 97..122 THEN s[1] - 32 ELSE s[1]>> \o Tail(s)

\* only the first capital is split off (the pattern without its g flag)
FormatKey_firstCapital(key) ==
    LET i == CHOOSE j \in 1..(Len(key) + 1) :
                 /\ j <= Len(key) => key[j] \in 65..90
                 /\ \A k \in 1..(j - 1) : key[k] \notin 65..90
        split == IF i > Len(key) THEN key
                 ELSE SubSeq(key, 1, i - 1) \o <<32>> \o SubSeq(key, i, Len(key))
    IN  Capitalize(Trim(split))

\* capitalizedKey
FormatKey(key) == Capitalize(Trim(SplitCapitals(key)))

\* `${n}` of a non-negative integer, as characters
RECURSIVE Decimal(_)
Decimal(n) == IF n < 10 THEN <<48 + n>> ELSE Decimal(n \div 10) \o <<48 + (n % 10)>>

\* a line of fixed text
Fixed(text) == [kind |-> "fixed", text |-> text]

\* a line `${label}: ${Math.round(value)}%`
PercentLine(label, value) ==
    [kind |-> "percent", chars |-> label \o <<58, 32>> \o Decimal(Round(value)) \o <<37>>]

\* results.mediaType.charAt(0).toUpperCase() + results.mediaType.slice(1)
CapitalizedType(mediaType) ==
    IF mediaType = "video" THEN "Video"
    ELSE IF mediaType = "audio" THEN "Audio"
    ELSE "Image"

RuleLine == Fixed("=======================================================")

\* the lines of the report text, in order
generateDownloadableReport(results) ==
    <<Fixed(""),
      RuleLine,
      Fixed("MediaWatchdog Deepfake Analysis Report"),
      RuleLine,
      [kind |-> "date"],
      [kind |-> "field", label |-> "Media Type", value |-> CapitalizedType(results.mediaType)],
      [kind |-> "name", label |-> "File Name", chars |-> results.fileName],
      [kind |-> "field", label |-> "Analysis Version", value |-> results.analysisVersion],
      [kind |-> "field", label |-> "Dataset Reference", value |-> results.datasetReference],
      RuleLine,
      Fixed(""),
      Fixed("ANALYSIS RESULTS"),
      Fixed("---------------"),
      [kind |-> "field", label |-> "Overall Result", value |-> results.overallResult],
      [kind |-> "field", label |-> "Confidence Interval", value |-> results.confidenceInterval],
      Fixed(""),
      Fixed("CORE METRICS"),
      Fixed("-----------"),
      PercentLine(StrAuthenticityScore, results.baseMetrics.authenticity),
      PercentLine(StrManipulationProbability, results.baseMetrics.manipulationProbability),
      PercentLine(StrConfidenceScore, results.baseMetrics.confidence),
      Fixed(""),
      Fixed("MEDIA-SPECIFIC METRICS"),
      Fixed("--------------------")>>
    \o [i \in 1..Len(MetricKeys(results.mediaType)) |->
          LET key == MetricKeys(results.mediaType)[i]
          IN  PercentLine(FormatKey(KeyChars[key]), results.specificMetrics[key])]
    \o <<Fixed(""),
         Fixed("DETAILED ANALYSIS"),
         Fixed("---------------"),
         [kind |-> "explanation", body |-> results.detailedExplanation],
         Fixed(""),
         RuleLine,
         Fixed("Generated by MediaWatchdog - Advanced Deepfake Detection System"),
         Fixed("Using DFDC & DFD Dataset Training Models"),
         RuleLine,
         Fixed("")>>

----------------------------------------------------------------------------
(* The calls of generateAnalysisResults *)

\* who calls: a direct caller of the exported function, a second direct
\* caller whose call may overlap the first one's, handleAnalyze,
\* handleAnalyzeWebcam
Slots == {"api", "api2", "file", "cam"}

Idle == [pc |-> "idle"]

\* the adapter was not awaited
NotInvoked == [invoked |-> FALSE, thrown |-> FALSE, value |-> DefaultMl]

\* analyzeImageWithML(imageData), given how initialization and inference went:
\* "initFailed" (initializeDetector returned null, 'Model not initialized'
\* is thrown), "inferThrew" (detector(imageData) threw), "ok"
analyzeImageWithML(imageData, event) ==
    [invoked |-> TRUE,
     thrown |-> FALSE,
     value |-> IF event = "ok" THEN MlSuccess(imageData) ELSE MlFallback(imageData)]

\* mlResults kept from the previous call instead of starting from the defaults
ClassifierStage_stale(completion) ==
    IF completion.invoked /\ ~completion.thrown THEN completion.value
    ELSE IF prev.pc # "none" THEN prev.completion.value
    ELSE DefaultMl

\* the classifier stage of generateAnalysisResults: mlResults after the
\* guarded await
ClassifierStage(completion) ==
    IF completion.invoked /\ ~completion.thrown THEN completion.value ELSE DefaultMl

\* fileData.size read without the check that fileData is there
generateAnalysisResults_unguardedSize(type, fileName, fileData, forceAuthentic, completion) ==
    [status |-> IF fileData.kind = "file" THEN "fulfilled" ELSE "rejected",
     value |-> BuildResult(type, fileName, fileData, forceAuthentic,
                           ClassifierStage(completion))]

\* how the promise of generateAnalysisResults settles
generateAnalysisResults(type, fileName, fileData, forceAuthentic, completion) ==
    [status |-> "fulfilled",
     value |-> BuildResult(type, fileName, fileData, forceAuthentic,
                           ClassifierStage(completion))]

\* the record of a call whose promise has settled; mlResults is the local
\* variable as the code after the override reads it
Settled(call, event, completion) ==
    LET p == generateAnalysisResults(call.type, call.fileName, call.fileData,
                                     call.forceAuthentic, completion)
    IN  [call EXCEPT !.pc = p.status, !.event = event,
                     !.completion = completion,
                     !.mlResults = OverrideMl(ClassifierStage(completion),
                                              call.forceAuthentic),
                     !.result = p.value]

\* the pipeline is built on every call
initializeDetector_always(call) == [call EXCEPT !.pc = "pipeline"]

\* initializeDetector is entered by analyzeImageWithML: with no cached
\* classifier it awaits pipeline(), otherwise it returns the cached one and
\* analyzeImageWithML awaits detector(imageData)
initializeDetector(call) ==
    IF classifier = Null
    THEN [call EXCEPT !.pc = "pipeline"]
    ELSE [call EXCEPT !.pc = "infer", !.detector = classifier]

\* generateAnalysisResults is entered: runs up to its first real await
\* (pipeline() when no classifier is cached, detector(imageData) when one
\* is), or to the end when the adapter is not used
GenCall(c, type, fileName, fileData, forceAuthentic) ==
    LET call == [pc |-> "start", type |-> type, fileName |-> fileName,
                 fileData |-> fileData, forceAuthentic |-> forceAuthentic,
                 detector |-> Null, event |-> "none",
                 completion |-> NotInvoked, mlResults |-> DefaultMl,
                 result |-> NoResult]
    IN  /\ calls[c].pc = "idle"
        /\ calls' = [calls EXCEPT ![c] =
                IF UsesClassifier(type, fileData, forceAuthentic)
                THEN initializeDetector(call)
                ELSE Settled(call, "skipped", NotInvoked)]
        /\ UNCHANGED classifier

\* the instance is stored only if no other call stored one in the meantime
PipelineResolve_keepFirst(c) ==
    /\ calls[c].pc = "pipeline"
    /\ classifier' = IF classifier = Null THEN c ELSE classifier
    /\ calls' = [calls EXCEPT ![c] = [@ EXCEPT !.pc = "infer", !.detector = classifier']]

\* pipeline(...) resolves: classifier is assigned and returned
PipelineResolve(c) ==
    /\ calls[c].pc = "pipeline"
    /\ classifier' = c
    /\ calls' = [calls EXCEPT ![c] = [@ EXCEPT !.pc = "infer", !.detector = c]]

\* pipeline(...) rejects: initializeDetector returns null
PipelineReject(c) ==
    /\ calls[c].pc = "pipeline"
    /\ calls' = [calls EXCEPT ![c] =
            Settled(@, "initFailed", analyzeImageWithML(@.fileData, "initFailed"))]
    /\ UNCHANGED classifier

\* detector(imageData) returns the classification
DetectorReturn(c) ==
    /\ calls[c].pc = "infer"
    /\ calls' = [calls EXCEPT ![c] =
            Settled(@, "ok", analyzeImageWithML(@.fileData, "ok"))]
    /\ UNCHANGED classifier

\* detector(imageData) throws
DetectorThrow(c) ==
    /\ calls[c].pc = "infer"
    /\ calls' = [calls EXCEPT ![c] =
            Settled(@, "inferThrew", analyzeImageWithML(@.fileData, "inferThrew"))]
    /\ UNCHANGED classifier

\* what the environment does to a pending call
Classifier(c) ==
    \/ PipelineResolve(c)
    \/ PipelineReject(c)
    \/ DetectorReturn(c)
    \/ DetectorThrow(c)

HasSettled(c) == calls[c].pc \in {"fulfilled", "rejected"}

----------------------------------------------------------------------------
(* Direct calls of generateAnalysisResults, one after the other *)

NoCall == [pc |-> "none"]

\* the arguments of a settled or pending call
InputOf(call) ==
    [type |-> call.type, fileName |-> call.fileName,
     fileData |-> call.fileData, forceAuthentic |-> call.forceAuthentic]

\* no report was made
NoReport == <<>>

\* a caller invokes generateAnalysisResults(type, fileName, fileData?, forceAuthentic?)
ApiCall ==
    \E type \in MediaTypes, fileName \in Names, forceAuthentic \in BOOLEAN :
      \E fileData \in {NoFile} \cup FilesNamed(fileName) :
        /\ GenCall("api", type, fileName, fileData, forceAuthentic)
        /\ UNCHANGED <<prev, uiVars, report>>

ApiClassifier ==
    /\ Classifier("api")
    /\ UNCHANGED <<prev, uiVars, report>>

\* the caller passes the result it was handed to generateDownloadableReport
ApiReport ==
    /\ calls["api"].pc = "idle"
    /\ prev.pc # "none"
    /\ report = NoReport
    /\ report' = generateDownloadableReport(prev.result)
    /\ UNCHANGED <<classifier, calls, prev, uiVars>>

\* the caller's await resumes with the settled promise; the report made from
\* the result held before is dropped
ApiReturn ==
    /\ HasSettled("api")
    /\ prev' = calls["api"]
    /\ calls' = [calls EXCEPT !["api"] = Idle]
    /\ report' = NoReport
    /\ UNCHANGED <<classifier, uiVars>>

----------------------------------------------------------------------------
(* Analyze.tsx: the upload page *)

\* no toast
NoToast == "none"

\* a handler of the page or of the webcam component ran on `input` (what the
\* environment handed it) and raised `title` (toast({title, ...})) or no toast
HandledWith(handler, input, title) ==
    /\ last' = [handler |-> handler, input |-> input, toast |-> title]
    /\ UNCHANGED report

Handled(handler, title) == HandledWith(handler, "none", title)

\* every listed type is accepted in every tab
ValidTypes_anyTab(tab) ==
    {"video/mp4", "video/webm", "video/quicktime", "audio/mpeg", "audio/wav",
     "audio/ogg", "image/jpeg", "image/png", "image/gif"}

\* validTypes
ValidTypes(tab) ==
    IF tab = "video" THEN {"video/mp4", "video/webm", "video/quicktime"}
    ELSE IF tab = "audio" THEN {"audio/mpeg", "audio/wav", "audio/ogg"}
    ELSE {"image/jpeg", "image/png", "image/gif"}

\* the files the user can pick in the file dialog
UserFiles ==
    {MkFile(NameClip, 40777, "video/mp4", 60),
     MkFile(NameSong, 2250, "audio/mpeg", 0),
     MkFile(NameAb, 1500, "image/png", 61),
     MkFile(NameWebcamCapture, 1500, "image/jpeg", 61)}

\* a continuation of a settled promise is queued: it runs before any timer,
\* user event or network completion
MicrotaskQueued == HasSettled("file") \/ HasSettled("cam")

\* <WebcamAnalyzer> is rendered in the video and image tabs while no result is shown
CamRendered == activeTab \in {"video", "image"} /\ analysisResults = NoResult

\* the component state after a render in which the component may have been
\* unmounted and mounted again: a new instance starts from the initial state;
\* the pending handler of the old instance (pc, results) keeps running
Remount(c) ==
    [c EXCEPT !.isActive = FALSE, !.webcamReady = FALSE,
              !.webcamError = Null, !.isAnalyzing = FALSE, !.analysisProgress = 0]

handleTabChange(value) ==
    /\ ~MicrotaskQueued
    /\ value # activeTab
    /\ activeTab' = value
    /\ selectedFile' = NoFile
    /\ analysisResults' = NoResult
    /\ cam' = Remount(cam)
    /\ Handled("handleTabChange", NoToast)
    /\ analysisProgress' = 0
    /\ UNCHANGED <<classifier, calls, prev, isAnalyzing, fileTask>>

\* the file input is rendered while no file is selected and no result is shown
handleFileSelect(file) ==
    /\ ~MicrotaskQueued
    /\ analysisResults = NoResult
    /\ selectedFile = NoFile
    /\ selectedFile' = IF file.mime \in ValidTypes(activeTab) THEN file ELSE selectedFile
    /\ Handled("handleFileSelect", IF file.mime \in ValidTypes(activeTab) THEN NoToast ELSE "Invalid file type")
    /\ UNCHANGED <<classifier, calls, prev, activeTab, isAnalyzing, analysisResults,
                   fileTask, cam,
                   analysisProgress>>

\* no handleAnalyze is running
TaskIdle == [pc |-> "idle", interval |-> FALSE, results |-> NoResult]

\* "Start Analysis": handleAnalyze up to its await
handleAnalyze ==
    /\ ~MicrotaskQueued
    /\ analysisResults = NoResult
    /\ selectedFile # NoFile
    /\ ~isAnalyzing
    /\ isAnalyzing' = TRUE
    /\ fileTask' = [pc |-> "awaiting", interval |-> TRUE, results |-> NoResult]
    /\ GenCall("file", activeTab, selectedFile.name, selectedFile, FALSE)
    /\ Handled("handleAnalyze", NoToast)
    /\ analysisProgress' = 0
    /\ UNCHANGED <<prev, activeTab, selectedFile, analysisResults, cam>>

\* the 500 ms timer that ends the analysis is not set
handleAnalyzeResume_noTimer ==
    /\ HasSettled("file")
    /\ calls' = [calls EXCEPT !["file"] = Idle]
    /\ fileTask' = [pc |-> "idle", interval |-> FALSE, results |-> calls["file"].result]
    /\ Handled("handleAnalyze.await", NoToast)
    /\ analysisProgress' = 100
    /\ UNCHANGED <<classifier, prev, activeTab, selectedFile, isAnalyzing,
                   analysisResults, cam>>

\* handleAnalyze after its await: the try block continues or the catch block runs
handleAnalyzeResume ==
    /\ HasSettled("file")
    /\ calls' = [calls EXCEPT !["file"] = Idle]
    /\ IF calls["file"].pc = "fulfilled"
       THEN /\ fileTask' = [pc |-> "timeout", interval |-> FALSE,
                            results |-> calls["file"].result]
            /\ UNCHANGED isAnalyzing
       ELSE /\ fileTask' = TaskIdle
            /\ isAnalyzing' = FALSE
    /\ Handled("handleAnalyze.await", IF calls["file"].pc = "fulfilled" THEN NoToast ELSE "Analysis failed")
    /\ analysisProgress' = IF calls["file"].pc = "fulfilled" THEN 100 ELSE analysisProgress
    /\ UNCHANGED <<classifier, prev, activeTab, selectedFile, analysisResults, cam>>

\* the 500 ms timer of handleAnalyze fires
handleAnalyzeTimeout ==
    /\ ~MicrotaskQueued
    /\ fileTask.pc = "timeout"
    /\ isAnalyzing' = FALSE
    /\ analysisResults' = fileTask.results
    /\ fileTask' = TaskIdle
    /\ cam' = Remount(cam)
    /\ Handled("handleAnalyze.setTimeout", "Analysis complete")
    /\ UNCHANGED <<classifier, calls, prev, activeTab, selectedFile,
                   analysisProgress>>

\* the increments Math.random() * 15 of a progress tick, in whole percent
TickSteps == {7, 14}

\* the progress is capped at 100
NextProgress_cap100(prevProgress, step) ==
    IF prevProgress + step >= 100 THEN 100 ELSE prevProgress + step

\* the updater of the progress interval: nextProgress >= 100 ? 99 : nextProgress
NextProgress(prevProgress, step) ==
    IF prevProgress + step >= 100 THEN 99 ELSE prevProgress + step

\* a tick of the 600 ms interval of handleAnalyze, until clearInterval
handleAnalyzeTick(step) ==
    /\ ~MicrotaskQueued
    /\ fileTask.interval
    /\ analysisProgress' = NextProgress(analysisProgress, step)
    /\ Handled("handleAnalyze.setInterval", NoToast)
    /\ UNCHANGED <<classifier, calls, prev, activeTab, selectedFile, isAnalyzing,
                   analysisResults, fileTask, cam>>

\* "Change File" (a file is selected, no result) and "New Analysis" (a result is shown)
resetAnalysis ==
    /\ ~MicrotaskQueued
    /\ selectedFile # NoFile \/ analysisResults # NoResult
    /\ selectedFile' = NoFile
    /\ analysisResults' = NoResult
    /\ cam' = IF analysisResults # NoResult THEN Remount(cam) ELSE cam
    /\ Handled("resetAnalysis", NoToast)
    /\ analysisProgress' = 0
    /\ UNCHANGED <<classifier, calls, prev, activeTab, isAnalyzing, fileTask>>

----------------------------------------------------------------------------
(* WebcamAnalyzer *)

\* the byte lengths of the captured frames
FrameSizes == {40777, 52300}

handleStartWebcam ==
    /\ ~MicrotaskQueued
    /\ CamRendered
    /\ ~cam.isActive
    /\ cam' = [cam EXCEPT !.isActive = TRUE, !.webcamError = Null]
    /\ Handled("handleStartWebcam", NoToast)
    /\ UNCHANGED <<classifier, calls, prev, activeTab, selectedFile, isAnalyzing,
                   analysisResults, fileTask,
                   analysisProgress>>

\* onUserMedia (the stream was granted; it does not follow onUserMediaError
\* for the same <Webcam>), then its 1 s timer: the camera is ready.  A frame handed to
\* handleAnalyzeWebcam by an earlier instance is delivered after 500 ms, before
\* a camera opened later can become ready.
handleUserMedia ==
    /\ ~MicrotaskQueued
    /\ CamRendered
    /\ cam.isActive
    /\ ~cam.webcamReady
    /\ cam.webcamError = Null
    /\ cam.pc = "idle"
    /\ cam' = [cam EXCEPT !.webcamReady = TRUE, !.webcamError = Null]
    /\ Handled("handleUserMedia", NoToast)
    /\ UNCHANGED <<classifier, calls, prev, activeTab, selectedFile, isAnalyzing,
                   analysisResults, fileTask,
                   analysisProgress>>

handleCloseWebcam ==
    /\ ~MicrotaskQueued
    /\ CamRendered
    /\ cam.isActive
    /\ cam' = [cam EXCEPT !.isActive = FALSE, !.webcamReady = FALSE, !.webcamError = Null]
    /\ Handled("handleCloseWebcam", NoToast)
    /\ UNCHANGED <<classifier, calls, prev, activeTab, selectedFile, isAnalyzing,
                   analysisResults, fileTask,
                   analysisProgress>>

\* onUserMediaError: the camera could not be opened (permission denied)
handleWebcamError ==
    /\ ~MicrotaskQueued
    /\ CamRendered
    /\ cam.isActive
    /\ ~cam.webcamReady
    /\ cam.webcamError = Null
    /\ cam' = [cam EXCEPT !.webcamError = "NotAllowedError", !.webcamReady = FALSE]
    /\ Handled("handleWebcamError", "Camera access error")
    /\ UNCHANGED <<classifier, calls, prev, activeTab, selectedFile, isAnalyzing,
                   analysisResults, fileTask,
                   analysisProgress>>

\* "Analyze Current Frame": capture, then handleAnalyzeWebcam up to its await
capture(size) ==
    /\ ~MicrotaskQueued
    /\ CamRendered
    /\ cam.isActive
    /\ ~cam.isAnalyzing
    /\ cam.webcamReady
    /\ cam.pc = "idle"
    /\ cam' = [cam EXCEPT !.isAnalyzing = TRUE, !.analysisProgress = 0,
                        !.pc = "awaiting", !.interval = TRUE]
    /\ GenCall("cam", "image", NameWebcamCapture,
               MkFile(NameWebcamCapture, size, "image/jpeg", 0), TRUE)
    /\ HandledWith("capture", "frame", NoToast)
    /\ UNCHANGED <<prev, activeTab, selectedFile, isAnalyzing, analysisResults, fileTask,
                   analysisProgress>>

\* the empty screenshot is handed on to handleAnalyzeWebcam
captureNoScreenshot_analyzes ==
    /\ ~MicrotaskQueued
    /\ CamRendered
    /\ cam.isActive
    /\ ~cam.isAnalyzing
    /\ cam.webcamReady
    /\ cam.pc = "idle"
    /\ cam' = [cam EXCEPT !.isAnalyzing = TRUE, !.analysisProgress = 0,
                        !.pc = "awaiting", !.interval = TRUE]
    /\ GenCall("cam", "image", NameWebcamCapture,
               MkFile(NameWebcamCapture, 0, "image/jpeg", 0), TRUE)
    /\ HandledWith("capture", "null", "Webcam error")
    /\ UNCHANGED <<prev, activeTab, selectedFile, isAnalyzing, analysisResults, fileTask,
                   analysisProgress>>

\* "Analyze Current Frame" when getScreenshot() returns null or throws
captureNoScreenshot ==
    /\ ~MicrotaskQueued
    /\ CamRendered
    /\ cam.isActive
    /\ ~cam.isAnalyzing
    /\ cam.webcamReady
    /\ HandledWith("capture", "null", "Webcam error")
    /\ UNCHANGED <<classifier, calls, prev, activeTab, selectedFile, isAnalyzing,
                   analysisResults, fileTask, cam,
                   analysisProgress>>

\* manipulationProbability left as generated
WebcamOverride_partial(results) ==
    [results EXCEPT
        !.isDeepfake = FALSE,
        !.overallResult = "Analysis Complete - Authentic Content",
        !.baseMetrics = [@ EXCEPT !.authenticity = 95000, !.confidence = 98000]]

\* the interval text is rewritten along with the confidence
WebcamOverride_withInterval(results) ==
    [results EXCEPT
        !.isDeepfake = FALSE,
        !.overallResult = "Analysis Complete - Authentic Content",
        !.baseMetrics = [authenticity |-> 95000,
                         manipulationProbability |-> 5000,
                         confidence |-> 98000],
        !.confidenceInterval = ConfidenceInterval(98000),
        !.specificMetrics = [metadataConsistency |-> 95000,
                             lightingConsistency |-> 98000,
                             textureAnalysis |-> 97000,
                             pixelAnomalies |-> 10000,
                             neuralInconsistency |-> 8000]]

\* the rewrite of the result after the await of handleAnalyzeWebcam
WebcamOverride(results) ==
    LET r1 == [results EXCEPT
                 !.isDeepfake = FALSE,
                 !.overallResult = "Analysis Complete - Authentic Content",
                 !.baseMetrics = [authenticity |-> 95000,
                                  manipulationProbability |-> 5000,
                                  confidence |-> 98000]]
    IN  IF r1.mediaType = "image"
        THEN [r1 EXCEPT !.specificMetrics =
                 [@ EXCEPT !.metadataConsistency = 95000,
                           !.lightingConsistency = 98000,
                           !.textureAnalysis = 97000,
                           !.pixelAnomalies = 10000,
                           !.neuralInconsistency = 8000]]
        ELSE IF r1.mediaType = "video"
        THEN [r1 EXCEPT !.specificMetrics =
                 [@ EXCEPT !.frameConsistency = 95000,
                           !.facialAnomaly = 10000,
                           !.audioVideoSync = 98000,
                           !.temporalCoherence = 97000,
                           !.neuralInconsistency = 8000]]
        ELSE r1

\* handleAnalyzeWebcam after its await
handleAnalyzeWebcamResume ==
    /\ HasSettled("cam")
    /\ calls' = [calls EXCEPT !["cam"] = Idle]
    /\ IF calls["cam"].pc = "fulfilled"
       THEN cam' = [cam EXCEPT !.pc = "timeout", !.interval = FALSE,
                               !.analysisProgress = IF cam.isAnalyzing THEN 100 ELSE @,
                               !.results = WebcamOverride(calls["cam"].result)]
       ELSE cam' = [cam EXCEPT !.pc = "idle", !.interval = FALSE, !.isAnalyzing = FALSE]
    /\ Handled("handleAnalyzeWebcam.await", IF calls["cam"].pc = "fulfilled" THEN NoToast ELSE "Analysis failed")
    /\ UNCHANGED <<classifier, prev, activeTab, selectedFile, isAnalyzing,
                   analysisResults, fileTask,
                   analysisProgress>>

\* Analyze.handleWebcamAnalysisComplete: the value analysisResults takes
handleWebcamAnalysisComplete(results) ==
    IF results # NoResult /\ "baseMetrics" \in DOMAIN results /\ "specificMetrics" \in DOMAIN results
    THEN results
    ELSE analysisResults

\* the 500 ms timer of handleAnalyzeWebcam fires: onAnalysisComplete(results)
handleAnalyzeWebcamTimeout ==
    /\ ~MicrotaskQueued
    /\ cam.pc = "timeout"
    /\ analysisResults' = handleWebcamAnalysisComplete(cam.results)
    /\ cam' = IF analysisResults' # NoResult
              THEN Remount([cam EXCEPT !.pc = "idle", !.results = NoResult])
              ELSE [cam EXCEPT !.pc = "idle", !.results = NoResult, !.isAnalyzing = FALSE]
    /\ Handled("handleAnalyzeWebcam.setTimeout", IF analysisResults' # NoResult THEN "Analysis complete" ELSE "Analysis incomplete")
    /\ UNCHANGED <<classifier, calls, prev, activeTab, selectedFile, isAnalyzing, fileTask,
                   analysisProgress>>

\* pipeline() or detector() of the pending file analysis completes
UiClassifier ==
    /\ ~MicrotaskQueued
    /\ Classifier("file")
    /\ Handled("pipeline/detector", NoToast)
    /\ UNCHANGED <<prev, activeTab, selectedFile, isAnalyzing, analysisResults,
                   fileTask, cam,
                   analysisProgress>>

----------------------------------------------------------------------------
(* AnalysisMetrics: the component that renders a result in the video tab *)

\* "Consistency"
StrConsistency == <<67, 111, 110, 115, 105, 115, 116, 101, 110, 99, 121>>
\* "Authenticity"
StrAuthenticity == <<65, 117, 116, 104, 101, 110, 116, 105, 99, 105, 116, 121>>
\* "Natural"
StrNatural == <<78, 97, 116, 117, 114, 97, 108>>
\* "Quality"
StrQuality == <<81, 117, 97, 108, 105, 116, 121>>
\* "Sync"
StrSync == <<83, 121, 110, 99>>

\* isGoodWhenHigh, by the name of the metric
isGoodWhenHigh(key) ==
    \/ Includes(KeyChars[key], StrConsistency)
    \/ Includes(KeyChars[key], StrAuthenticity)
    \/ Includes(KeyChars[key], StrNatural)
    \/ Includes(KeyChars[key], StrQuality)
    \/ Includes(KeyChars[key], StrSync)

\* isGoodValue
isGoodValue(key, value) ==
    IF isGoodWhenHigh(key) THEN value > 70000 ELSE value < 30000

\* the colour class of each specific metric as AnalysisMetrics renders it
AnalysisMetrics(results) ==
    [key \in DOMAIN results.specificMetrics |->
        IF isGoodValue(key, results.specificMetrics[key])
        THEN "cyber-success" ELSE "cyber-danger"]

----------------------------------------------------------------------------
(* Two direct callers whose calls of generateAnalysisResults may overlap *)

DirectSlots == {"api", "api2"}

\* the inputs of the overlapping calls
OverlapNames == {NameAb, NameClip}

OverlapCall(c) ==
    \E type \in MediaTypes, fileName \in OverlapNames :
      \E fileData \in {NoFile} \cup FilesNamed(fileName) :
        /\ GenCall(c, type, fileName, fileData, FALSE)
        /\ UNCHANGED <<prev, uiVars, report>>

OverlapClassifier(c) ==
    /\ Classifier(c)
    /\ UNCHANGED <<prev, uiVars, report>>

\* the caller's await resumes; the result is dropped
OverlapReturn(c) ==
    /\ HasSettled(c)
    /\ calls' = [calls EXCEPT ![c] = Idle]
    /\ UNCHANGED <<classifier, prev, uiVars, report>>

----------------------------------------------------------------------------
(* Direct calls over a sweep of seeds *)

\* the file sizes swept: SweepStep * i for i in 0..SweepCount
SweepStep == 25
SweepCount == 40

\* the classifier's top label scores, in percent
SweepScores == {0, 60, 61, 100}

SweepCall ==
    \E type \in MediaTypes, fileName \in Names, forceAuthentic \in BOOLEAN :
      \E fileData \in {NoFile} \cup
               {MkFile(fileName, SweepStep * i, MimeOf(fileName), score) :
                   i \in 0..SweepCount, score \in SweepScores} :
        /\ GenCall("api", type, fileName, fileData, forceAuthentic)
        /\ UNCHANGED <<prev, uiVars, report>>

\* the caller's await resumes; the result is dropped
SweepReturn ==
    /\ HasSettled("api")
    /\ calls' = [calls EXCEPT !["api"] = Idle]
    /\ UNCHANGED <<classifier, prev, uiVars, report>>

----------------------------------------------------------------------------
(* WebcamAnalyzer: the start-up of the camera, timer by timer.  The page   *)
(* specifications take the start-up in one step per outcome               *)
(* (handleUserMedia, handleWebcamError); here every callback of the       *)
(* component is a step of its own and the page around it stays as it is.  *)

\* the timers of the component and the request made by <Webcam>:
\* stream is "none" (no <Webcam> mounted), "requested", "granted" or "denied";
\* sawReady is the webcamReady the callback of the 5 s timer closed over
NoStartup ==
    [stream |-> "none", initializationTimer |-> FALSE, sawReady |-> FALSE,
     readyTimer |-> FALSE, userMediaTimer |-> FALSE, retryTimer |-> FALSE]

\* webcamError set by the 5 s timer
TimedOut == "Webcam initialization timed out. Please ensure camera access is granted."

\* only the component changes
WebcamStep(c, handler, title) ==
    /\ cam' = c
    /\ Handled(handler, title)
    /\ UNCHANGED <<classifier, calls, prev, activeTab, selectedFile, isAnalyzing,
                   analysisProgress, analysisResults, fileTask>>

\* the effect on [isActive] after isActive became true: <Webcam> is mounted
\* and requests the camera, both timers are set
useEffectActive(c) ==
    [c EXCEPT !.isActive = TRUE,
              !.webcamError = Null,
              !.startup = [@ EXCEPT !.stream = "requested",
                                    !.initializationTimer = TRUE,
                                    !.sawReady = c.webcamReady,
                                    !.readyTimer = TRUE]]

\* isActive became false: the cleanup of the effect clears both of its
\* timers, the else branch of the effect resets the state, <Webcam> is
\* unmounted; the 1 s timer of handleUserMedia is not cleared
useEffectInactive(c) ==
    [c EXCEPT !.isActive = FALSE,
              !.webcamReady = FALSE,
              !.webcamError = Null,
              !.startup = [@ EXCEPT !.stream = "none",
                                    !.initializationTimer = FALSE,
                                    !.readyTimer = FALSE]]

\* "Live Webcam Detection": handleStartWebcam and the effect it triggers
startWebcam ==
    /\ ~cam.isActive
    /\ WebcamStep(useEffectActive(cam), "handleStartWebcam", NoToast)

\* onUserMedia: handleUserMedia up to its setTimeout
onUserMedia ==
    /\ cam.isActive
    /\ cam.startup.stream = "requested"
    /\ WebcamStep([cam EXCEPT !.webcamError = Null,
                              !.startup = [@ EXCEPT !.stream = "granted",
                                                    !.userMediaTimer = TRUE]],
                  "handleUserMedia", NoToast)

\* the 1 s timer of handleUserMedia: webcamRef.current.video exists while a
\* <Webcam> is mounted
userMediaTimer ==
    /\ cam.startup.userMediaTimer
    /\ WebcamStep([cam EXCEPT !.webcamReady = IF cam.isActive THEN TRUE ELSE @,
                              !.startup = [@ EXCEPT !.userMediaTimer = FALSE]],
                  "handleUserMedia.setTimeout", NoToast)

\* onUserMediaError: handleWebcamError
onUserMediaError ==
    /\ cam.isActive
    /\ cam.startup.stream = "requested"
    /\ WebcamStep([cam EXCEPT !.webcamError = "NotAllowedError",
                              !.webcamReady = FALSE,
                              !.startup = [@ EXCEPT !.stream = "denied"]],
                  "handleWebcamError", "Camera access error")

\* the 1.5 s timer of the effect: video.readyState === 4 can hold only once
\* the stream was granted
readyTimer ==
    /\ cam.startup.readyTimer
    /\ \E readyState4 \in {r \in BOOLEAN : r => cam.startup.stream = "granted"} :
          WebcamStep([cam EXCEPT
                        !.webcamReady = IF readyState4 THEN TRUE ELSE @,
                        !.startup = [@ EXCEPT
                            !.readyTimer = FALSE,
                            !.initializationTimer = IF readyState4 THEN FALSE ELSE @]],
                     "useEffect.readyTimer", NoToast)

\* the 5 s timer of the effect, due after the 1.5 s timer set with it; its
\* callback tests the webcamReady of the render that set the timer
initializationTimer ==
    /\ cam.startup.initializationTimer
    /\ ~cam.startup.readyTimer
    /\ WebcamStep([cam EXCEPT
                     !.webcamError = IF ~cam.startup.sawReady THEN TimedOut ELSE @,
                     !.startup = [@ EXCEPT !.initializationTimer = FALSE]],
                  "useEffect.initializationTimer", NoToast)

\* the close button: handleCloseWebcam and the effect it triggers
closeWebcam ==
    /\ cam.isActive
    /\ WebcamStep(useEffectInactive(cam), "handleCloseWebcam", NoToast)

\* "Try Again", rendered while webcamError is set: retryWebcam up to its setTimeout
retryWebcam ==
    /\ cam.isActive
    /\ cam.webcamError # Null
    /\ WebcamStep([useEffectInactive(cam) EXCEPT !.startup.retryTimer = TRUE],
                  "retryWebcam", NoToast)

\* the 500 ms timer of retryWebcam: setIsActive(true)
retryTimer ==
    /\ cam.startup.retryTimer
    /\ WebcamStep([(IF cam.isActive THEN cam ELSE useEffectActive(cam))
                      EXCEPT !.startup.retryTimer = FALSE],
                  "retryWebcam.setTimeout", NoToast)

InitCalls ==
    /\ classifier = Null
    /\ calls = [c \in Slots |-> Idle]
    /\ prev = NoCall
    /\ report = NoReport

InitUi ==
    /\ activeTab = "video"
    /\ selectedFile = NoFile
    /\ isAnalyzing = FALSE
    /\ analysisProgress = 0
    /\ analysisResults = NoResult
    /\ fileTask = TaskIdle
    /\ cam = [isActive |-> FALSE, webcamReady |-> FALSE, webcamError |-> Null,
              isAnalyzing |-> FALSE, analysisProgress |-> 0, pc |-> "idle",
              interval |-> FALSE, results |-> NoResult, startup |-> NoStartup]
    /\ last = [handler |-> "none", input |-> "none", toast |-> NoToast]

Init == InitCalls /\ InitUi

NextGen == ApiCall \/ ApiClassifier \/ ApiReturn \/ ApiReport

SpecGen == Init /\ [][NextGen]_vars

NextSweep == SweepCall \/ ApiClassifier \/ SweepReturn

SpecSweep == Init /\ [][NextSweep]_vars

NextOverlap ==
    \E c \in DirectSlots : OverlapCall(c) \/ OverlapClassifier(c) \/ OverlapReturn(c)

SpecOverlap == Init /\ [][NextOverlap]_vars

NextUi ==
    \/ \E value \in MediaTypes : handleTabChange(value)
    \/ \E file \in UserFiles : handleFileSelect(file)
    \/ handleAnalyze
    \/ handleAnalyzeResume
    \/ handleAnalyzeTimeout
    \/ resetAnalysis
    \/ handleStartWebcam
    \/ handleUserMedia
    \/ handleCloseWebcam
    \/ \E size \in FrameSizes : capture(size)
    \/ captureNoScreenshot
    \/ handleWebcamError
    \/ handleAnalyzeWebcamResume
    \/ handleAnalyzeWebcamTimeout
    \/ UiClassifier

SpecUi == Init /\ [][NextUi]_vars

\* The page when the pending pipeline() and detector() calls settle and the
\* event loop runs what is due: a continuation of a settled promise runs as
\* soon as it is queued, a due timer callback runs at the next turn.
SpecUiFair ==
    /\ SpecUi
    /\ SF_vars(UiClassifier)
    /\ WF_vars(handleAnalyzeResume)
    /\ SF_vars(handleAnalyzeTimeout)
    /\ WF_vars(handleAnalyzeWebcamResume)
    /\ SF_vars(handleAnalyzeWebcamTimeout)

\* The page with the ticks of the progress interval of handleAnalyze.  The
\* 300 ms interval of handleAnalyzeWebcam never ticks: its call passes
\* forceAuthentic, awaits nothing outside the microtask queue, and the
\* interval is cleared before its first tick is due.
NextProgressUi == NextUi \/ \E step \in TickSteps : handleAnalyzeTick(step)

SpecProgress == Init /\ [][NextProgressUi]_vars

NextWebcam ==
    \/ startWebcam
    \/ onUserMedia
    \/ userMediaTimer
    \/ onUserMediaError
    \/ readyTimer
    \/ initializationTimer
    \/ closeWebcam
    \/ retryWebcam
    \/ retryTimer

SpecWebcam == Init /\ [][NextWebcam]_vars

----------------------------------------------------------------------------
(* The handlers of the two components entered in any state of their        *)
(* component, also where the page does not render or disables the button   *)
(* that calls them: the early returns of the handlers are then taken.      *)

\* handleAnalyze entered with no file selected: `if (!selectedFile) return`
handleAnalyzeNoFile ==
    /\ ~MicrotaskQueued
    /\ selectedFile = NoFile
    /\ Handled("handleAnalyze", NoToast)
    /\ UNCHANGED <<classifier, calls, prev, activeTab, selectedFile, isAnalyzing,
                   analysisResults, fileTask, cam,
                   analysisProgress>>

\* capture entered while webcamReady is false (or no <Webcam> is mounted)
captureNotReady ==
    /\ ~MicrotaskQueued
    /\ CamRendered
    /\ ~cam.webcamReady
    /\ HandledWith("capture", "none", "Webcam not ready")
    /\ UNCHANGED <<classifier, calls, prev, activeTab, selectedFile, isAnalyzing,
                   analysisResults, fileTask, cam,
                   analysisProgress>>

NextHandlers == NextUi \/ handleAnalyzeNoFile \/ captureNotReady

SpecHandlers == Init /\ [][NextHandlers]_vars

----------------------------------------------------------------------------
(* Properties *)

\* every AnalysisResult the state holds: returned by a settled call, handed to
\* a direct caller, captured by a pending timer, or stored in analysisResults
HeldResults ==
    ({calls[c].result : c \in {d \in Slots : HasSettled(d)}}
       \cup (IF prev.pc = "none" THEN {} ELSE {prev.result})
       \cup {fileTask.results, cam.results, analysisResults}) \ {NoResult}

\* the ways the classifier stage can end for an input
CompletionsOf(type, fileData, forceAuthentic) ==
    IF UsesClassifier(type, fileData, forceAuthentic)
    THEN {analyzeImageWithML(fileData, e) : e \in {"initFailed", "inferThrew", "ok"}}
    ELSE {NotInvoked}

\* every result generateAnalysisResults returns for the modelled inputs
AllGenerated ==
    UNION {UNION {{generateAnalysisResults(type, fileName, fileData, forceAuthentic, k).value :
                      k \in CompletionsOf(type, fileData, forceAuthentic)} :
                  fileData \in {NoFile} \cup FilesNamed(fileName)} :
           type \in MediaTypes, fileName \in Names, forceAuthentic \in BOOLEAN}

\* the result shown is one that the webcam override rewrote
WebcamResultShown ==
    /\ analysisResults # NoResult
    /\ analysisResults.overallResult = "Analysis Complete - Authentic Content"

\* C1: in every AnalysisResult, as generated for any input and classifier
\* outcome and as held by the page (webcam-rewritten results included),
\* manipulationProbability = 100 - authenticity.
C1_ManipulationIsComplement ==
    \A r \in HeldResults \cup AllGenerated :
        r.baseMetrics.manipulationProbability = 100000 - r.baseMetrics.authenticity

\* C1 witness: a webcam-rewritten result is stored in analysisResults.
C1_Witness ==
    /\ WebcamResultShown
    /\ analysisResults.baseMetrics.authenticity = 95000

\* the text `${lo}%-${hi}%` for a confidence in thousandths
IntervalText(confidence) ==
    ToString((confidence - 8000 + 500) \div 1000) \o "%-"
        \o ToString((confidence + 8000 + 500) \div 1000) \o "%"

\* C2: in every AnalysisResult stored in analysisResults (file uploads and
\* webcam captures), confidenceInterval is the text
\* "{round(confidence-8)}%-{round(confidence+8)}%" of that result's own
\* baseMetrics.confidence.
C2_IntervalFollowsConfidence ==
    analysisResults # NoResult =>
        analysisResults.confidenceInterval = IntervalText(analysisResults.baseMetrics.confidence)

\* a call of the direct caller has settled
ApiSettled == HasSettled("api")

\* C3: every call with forceAuthentic = true or a fileName containing
\* "webcam-capture" returns isDeepfake = false and authenticity in [85, 95].
C3_ForcedIsAuthentic ==
    \A c \in Slots :
        (HasSettled(c) /\ (calls[c].forceAuthentic
                            \/ Includes(calls[c].fileName, StrWebcamCapture)))
        => /\ calls[c].pc = "fulfilled"
           /\ calls[c].result.isDeepfake = FALSE
           /\ calls[c].result.baseMetrics.authenticity >= 85000
           /\ calls[c].result.baseMetrics.authenticity <= 95000

\* C3 witness: a call named "webcam-capture", not forced, for which the
\* classifier ran and reported a deepfake-range score, has settled.
C3_Witness ==
    /\ ApiSettled
    /\ ~calls["api"].forceAuthentic
    /\ Includes(calls["api"].fileName, StrWebcamCapture)
    /\ calls["api"].event = "ok"
    /\ calls["api"].fileData.score > 60

\* an AnalysisResult with baseMetrics and all 5 specificMetrics
Complete(r) ==
    /\ "baseMetrics" \in DOMAIN r
    /\ DOMAIN r.baseMetrics = {"authenticity", "manipulationProbability", "confidence"}
    /\ "specificMetrics" \in DOMAIN r
    /\ Cardinality(DOMAIN r.specificMetrics) = 5
    /\ \A f \in DOMAIN r.specificMetrics : r.specificMetrics[f] \in Int

\* C4: generateAnalysisResults has no error outcome: however the classifier
\* behaves (not invoked, initialization fails, inference throws, inference
\* succeeds) the promise is fulfilled with a complete AnalysisResult, never
\* rejected.
C4_NeverRejects ==
    \A c \in Slots :
        /\ calls[c].pc # "rejected"
        /\ (calls[c].pc # "idle" /\ calls[c].event # "none") => calls[c].pc = "fulfilled"
        /\ calls[c].pc = "fulfilled" => Complete(calls[c].result)

\* C4 witness: calls have settled after a thrown inference and, without file
\* data, with the classifier not invoked.
C4_Witness ==
    /\ ApiSettled
    /\ calls["api"].event = "skipped"
    /\ calls["api"].fileData = NoFile
    /\ prev.pc = "fulfilled"
    /\ prev.event = "inferThrew"

\* C5: when initializeDetector yields no classifier or the inference throws,
\* analyzeImageWithML does not throw and returns the fallback chosen by the
\* input's name: isDeepfake = false, confidence = 95 for a name containing
\* "webcam-capture" or "webcam", else isDeepfake = true, confidence = 65.
C5_FallbackByName ==
    \A c \in Slots :
        (HasSettled(c) /\ calls[c].event \in {"initFailed", "inferThrew"})
        => LET k == calls[c].completion
               n == calls[c].fileData.name
               w == Includes(n, StrWebcamCapture) \/ Includes(n, StrWebcam)
           IN  /\ k.invoked
               /\ ~k.thrown
               /\ k.value.isDeepfake = ~w
               /\ k.value.confidence = IF w THEN 95000 ELSE 65000

\* C5 witness: the inference threw for a file named "webcam-captuer.jpg".
C5_Witness ==
    /\ ApiSettled
    /\ calls["api"].event = "inferThrew"
    /\ calls["api"].fileData.name = NameWebcamCaptuer

\* a percentage in thousandths
IsPercentage(v) == v >= 0 /\ v <= 100000

\* C6: authenticity, manipulationProbability, confidence and each of the 5
\* specificMetrics of every generated result lie in [0, 100].
C6_PercentagesInRange ==
    \A c \in Slots :
        calls[c].pc = "fulfilled" =>
            LET r == calls[c].result
            IN  /\ IsPercentage(r.baseMetrics.authenticity)
                /\ IsPercentage(r.baseMetrics.manipulationProbability)
                /\ IsPercentage(r.baseMetrics.confidence)
                /\ \A f \in DOMAIN r.specificMetrics : IsPercentage(r.specificMetrics[f])

\* C6 witness: a video call for which the classifier reported the top score
\* 100 has settled with a deepfake verdict.
C6_Witness ==
    /\ ApiSettled
    /\ calls["api"].type = "video"
    /\ calls["api"].event = "ok"
    /\ calls["api"].fileData.score = 100
    /\ calls["api"].result.isDeepfake
    /\ calls["api"].result.specificMetrics.facialAnomaly = 100000

\* isDeepfake, baseMetrics and specificMetrics of a settled call
Metrics(call) ==
    <<call.result.isDeepfake, call.result.baseMetrics, call.result.specificMetrics>>

SameButName(a, b) ==
    /\ a.type = b.type
    /\ a.forceAuthentic = b.forceAuthentic
    /\ a.fileData.kind = b.fileData.kind
    /\ a.fileData.kind = "file" =>
          /\ a.fileData.size = b.fileData.size
          /\ a.fileData.score = b.fileData.score
    /\ a.fileName # b.fileName

\* C8 (as stated): two runs that differ only in fileName, with names of the
\* same character-code sum and the same classifier behaviour, produce the
\* same isDeepfake, baseMetrics and specificMetrics.
C8_NameOnlySeeds ==
    (ApiSettled /\ prev.pc # "none" /\ SameButName(prev, calls["api"])
       /\ CharSum(prev.fileName) = CharSum(calls["api"].fileName)
       /\ prev.event = calls["api"].event)
    => Metrics(prev) = Metrics(calls["api"])

\* C8 (amended): ... and both names agree on containing "webcam-capture" and
\* on containing "webcam" ...
C8_NameSeedsAndMarks ==
    (ApiSettled /\ prev.pc # "none" /\ SameButName(prev, calls["api"])
       /\ CharSum(prev.fileName) = CharSum(calls["api"].fileName)
       /\ prev.event = calls["api"].event
       /\ Includes(prev.fileName, StrWebcamCapture)
            = Includes(calls["api"].fileName, StrWebcamCapture)
       /\ Includes(prev.fileName, StrWebcam) = Includes(calls["api"].fileName, StrWebcam))
    => Metrics(prev) = Metrics(calls["api"])

\* C8 witness: "ab.png" and "ba.png" were analysed as images with the same
\* file body and the classifier succeeding.
C8_Witness ==
    /\ ApiSettled
    /\ prev.pc # "none"
    /\ SameButName(prev, calls["api"])
    /\ prev.fileName = NameAb
    /\ calls["api"].fileName = NameBa
    /\ prev.event = "ok"
    /\ calls["api"].event = "ok"

\* the calls of generateAnalysisResults made by the page whose continuation
\* has not run yet
InFlight == {c \in {"file", "cam"} : calls[c].pc # "idle"}

\* C9: through the actions of the page at most one analysis is in flight.
C9_AtMostOneInFlight == Cardinality(InFlight) <= 1

\* C10: in non-overlapping calls, once an initialization has succeeded
\* classifier is never reset or replaced, pipeline() is not invoked again,
\* and every call that reaches the inference uses the cached instance.
C10_ClassifierCached ==
    [][classifier # Null =>
          /\ classifier' = classifier
          /\ \A c \in Slots : calls'[c].pc # "pipeline"
          /\ \A c \in Slots : calls'[c].pc = "infer" => calls'[c].detector = classifier]_vars

\* C10 witness: a call is at the inference with the cached instance after an
\* earlier call already ran its inference.
C10_Witness ==
    /\ calls["api"].pc = "infer"
    /\ calls["api"].detector = classifier
    /\ prev.pc # "none"
    /\ prev.event \in {"ok", "inferThrew"}

\* the positions of a line in a report
PositionsOf(rep, line) == {i \in 1..Len(rep) : rep[i] = line}

\* the string without its spaces
RECURSIVE WithoutSpaces(_)
WithoutSpaces(s) ==
    IF s = <<>> THEN <<>>
    ELSE (IF Head(s) = 32 THEN <<>> ELSE <<Head(s)>>) \o WithoutSpaces(Tail(s))

\* label is key split on its capitals, first letter upper-cased
IsSplitOf(label, key) ==
    /\ WithoutSpaces(label) = <<key[1] - 32>> \o Tail(key)
    /\ label[1] # 32
    /\ label[Len(label)] # 32
    /\ \A i \in 2..Len(label) : (label[i] \in 65..90) <=> (label[i - 1] = 32)

\* the number a string of decimal digits denotes (-1 if it is not one)
RECURSIVE DecimalValue(_)
DecimalValue(s) ==
    IF s = <<>> \/ s[Len(s)] \notin 48..57 THEN -1
    ELSE IF Len(s) = 1 THEN s[1] - 48
    ELSE LET front == DecimalValue(SubSeq(s, 1, Len(s) - 1))
         IN  IF front < 0 THEN -1 ELSE 10 * front + (s[Len(s)] - 48)

\* n is v (in thousandths) rounded to the nearest integer, halves upwards
IsNearest(n, v) == 1000 * n - 500 <= v /\ v < 1000 * n + 500

\* chars is "<label>: <value rounded>%" for a label accepted by IsLabel
IsPercentLine(chars, IsLabel(_), value) ==
    \E c \in 1..(Len(chars) - 3) :
        /\ chars[c] = 58
        /\ \A i \in 1..(c - 1) : chars[i] # 58
        /\ chars[c + 1] = 32
        /\ chars[Len(chars)] = 37
        /\ IsLabel(SubSeq(chars, 1, c - 1))
        /\ IsNearest(DecimalValue(SubSeq(chars, c + 2, Len(chars) - 1)), value)

\* what C11 asks of the report text made from an AnalysisResult
ReportListsMetrics(results, rep) ==
    LET heads == PositionsOf(rep, Fixed("MEDIA-SPECIFIC METRICS"))
        tails == PositionsOf(rep, Fixed("DETAILED ANALYSIS"))
        cores == PositionsOf(rep, Fixed("CORE METRICS"))
    IN  /\ Cardinality(heads) = 1 /\ Cardinality(tails) = 1 /\ Cardinality(cores) = 1
        /\ LET h == CHOOSE i \in heads : TRUE
               t == CHOOSE i \in tails : TRUE
               k == CHOOSE i \in cores : TRUE
               percentAt == {i \in 1..Len(rep) : rep[i].kind = "percent"}
               metricAt == {i \in percentAt : h < i /\ i < t}
               keys == MetricKeys(results.mediaType)
               first == h + 2
           IN  /\ k < h /\ h < t
               \* one line per key, in the keys' order, nothing dropped or doubled
               /\ {keys[i] : i \in 1..Len(keys)} = DOMAIN results.specificMetrics
               /\ Len(keys) = Cardinality(DOMAIN results.specificMetrics)
               /\ metricAt = first..(first + Len(keys) - 1)
               /\ \A i \in 1..Len(keys) :
                     IsPercentLine(rep[first + i - 1].chars,
                                   LAMBDA l : IsSplitOf(l, KeyChars[keys[i]]),
                                   results.specificMetrics[keys[i]])
               \* the core metric lines
               /\ percentAt \ metricAt = (k + 2)..(k + 4)
               /\ IsPercentLine(rep[k + 2].chars, LAMBDA l : l = StrAuthenticityScore,
                                results.baseMetrics.authenticity)
               /\ IsPercentLine(rep[k + 3].chars, LAMBDA l : l = StrManipulationProbability,
                                results.baseMetrics.manipulationProbability)
               /\ IsPercentLine(rep[k + 4].chars, LAMBDA l : l = StrConfidenceScore,
                                results.baseMetrics.confidence)

\* C11: the report made from a result holds, between the MEDIA-SPECIFIC
\* METRICS header and the DETAILED ANALYSIS header, exactly one line
\* "<key split on capitals, first letter upper-cased>: <value rounded>%" for
\* every key of specificMetrics, in the keys' order, and the three core
\* metric lines show the rounded authenticity, manipulationProbability and
\* confidence.
C11_ReportListsMetrics ==
    report # NoReport => ReportListsMetrics(prev.result, report)

\* C11 witness: a report was made from a video result with a deepfake
\* verdict whose audioVideoSync is not a whole number.
C11_Witness ==
    /\ report # NoReport
    /\ prev.result.mediaType = "video"
    /\ prev.result.isDeepfake
    /\ prev.result.specificMetrics.audioVideoSync % 1000 # 0

\* the step is handleAnalyze entered with no file selected
NoFileRequest == last'.handler = "handleAnalyze" /\ selectedFile = NoFile

\* the step is a capture that cannot take a frame: the camera is not ready
\* or getScreenshot() gave nothing
FailedCapture ==
    /\ last'.handler = "capture"
    /\ (~cam.webcamReady \/ last'.input = "null")

\* the step is onUserMediaError: the permission was denied
PermissionDenied == last'.handler = "handleWebcamError"

\* the step made no call of generateAnalysisResults, started no analysis and
\* left the result shown as it was
Aborted ==
    /\ calls' = calls
    /\ isAnalyzing' = isAnalyzing
    /\ cam'.isAnalyzing = cam.isAnalyzing
    /\ fileTask' = fileTask
    /\ cam'.pc = cam.pc
    /\ analysisResults' = analysisResults

\* C12 (as stated): an analysis requested with no file selected, a capture
\* requested while the camera is not ready or with no screenshot available,
\* and a denied camera permission each raise a notification, make no call of
\* generateAnalysisResults, and leave isAnalyzing and analysisResults as they
\* were.
C12_InputErrorsNotified ==
    [][(NoFileRequest \/ FailedCapture \/ PermissionDenied)
          => (last'.toast # NoToast /\ Aborted)]_vars

\* C12 (amended): a failed capture and a denied camera permission raise a
\* notification; an analysis requested with no file selected returns without
\* one; each of them makes no call of generateAnalysisResults and leaves
\* isAnalyzing and analysisResults as they were.
C12_InputErrorsAbort ==
    [][/\ (FailedCapture \/ PermissionDenied) => (last'.toast # NoToast /\ Aborted)
       /\ NoFileRequest => (last'.toast = NoToast /\ Aborted)]_vars

\* C12 witness: a capture found no screenshot while a file analysis was
\* pending.
C12_Witness ==
    /\ last.handler = "capture"
    /\ last.input = "null"
    /\ last.toast = "Webcam error"
    /\ isAnalyzing
    /\ calls["file"].pc = "pipeline"

\* the adapter has been entered by the call: it is awaiting pipeline() or
\* detector(), or it has settled after the adapter returned
AdapterInvoked(call) ==
    \/ call.pc \in {"pipeline", "infer"}
    \/ call.pc \in {"fulfilled", "rejected"} /\ call.completion.invoked

\* C13: a call of generateAnalysisResults invokes analyzeImageWithML if and
\* only if type is 'image' or 'video', fileData is supplied and forceAuthentic
\* is false; in every other call mlResults is, before the forced override,
\* the zeroed default tuple.
C13_ClassifierInvokedIff ==
    \A c \in Slots :
        calls[c].pc # "idle" =>
            /\ AdapterInvoked(calls[c]) <=>
                  (/\ calls[c].type \in {"image", "video"}
                   /\ calls[c].fileData # NoFile
                   /\ ~calls[c].forceAuthentic)
            /\ (HasSettled(c) /\ ~AdapterInvoked(calls[c])) =>
                  /\ calls[c].event = "skipped"
                  /\ ClassifierStage(calls[c].completion).confidence = 0
                  /\ ClassifierStage(calls[c].completion).isDeepfake = FALSE
                  /\ \A f \in DOMAIN DefaultMl.features :
                        ClassifierStage(calls[c].completion).features[f] = 0

\* C13 witness: an audio call with file data settled without the adapter,
\* after a video call for which the adapter ran its inference.
C13_Witness ==
    /\ ApiSettled
    /\ calls["api"].type = "audio"
    /\ calls["api"].fileData # NoFile
    /\ calls["api"].event = "skipped"
    /\ prev.pc # "none"
    /\ prev.type = "video"
    /\ prev.event = "ok"

\* the classifier attempt of a settled call failed: initializeDetector gave
\* no classifier or detector(imageData) threw
ClassifierFailed(call) == call.event \in {"initFailed", "inferThrew"}

\* C14: when the classifier attempt fails for an image or video upload,
\* generateAnalysisResults goes on with the zeroed defaults (confidence = 0,
\* all features = 0, isDeepfake = false), so that authenticity is
\* 50 + 40*sin(5*seed) and isDeepfake holds exactly when
\* manipulationProbability > 60.
C14_FailureKeepsDefaults ==
    \A c \in Slots :
        (HasSettled(c) /\ ClassifierFailed(calls[c])) =>
            LET ml == ClassifierStage(calls[c].completion)
                r == calls[c].result
                seed == Seed(calls[c].fileName, calls[c].fileData)
            IN  /\ ml.confidence = 0
                /\ ml.isDeepfake = FALSE
                /\ \A f \in DOMAIN ml.features : ml.features[f] = 0
                /\ r.baseMetrics.authenticity = 50000 + 40 * SinMilli(5 * seed)
                /\ r.isDeepfake = (r.baseMetrics.manipulationProbability > 60000)

FixedAuthenticTuple ==
    [isDeepfake |-> FALSE,
     confidence |-> 90000,
     features |-> [artificialPatterns |-> 12000, naturalFeatures |-> 92000,
                   textureConsistency |-> 95000, lighting |-> 90000]]

\* the classifier feature a specificMetrics field is read from, if any
FeatureBehind(mediaType) ==
    IF mediaType = "video"
    THEN [frameConsistency |-> "textureConsistency", facialAnomaly |-> "artificialPatterns",
          temporalCoherence |-> "textureConsistency", neuralInconsistency |-> "artificialPatterns"]
    ELSE IF mediaType = "image"
    THEN [metadataConsistency |-> "naturalFeatures", pixelAnomalies |-> "artificialPatterns",
          lightingConsistency |-> "lighting", textureAnalysis |-> "textureConsistency",
          neuralInconsistency |-> "artificialPatterns"]
    ELSE <<>>

\* a specificMetrics field of the settled call holds the value the
\* classifier returned for the feature behind it
CarriesClassifierValue(call) ==
    /\ call.completion.invoked
    /\ \E f \in DOMAIN FeatureBehind(call.type) :
          LET v == call.completion.value.features[FeatureBehind(call.type)[f]]
          IN  v # 0 /\ call.result.specificMetrics[f] = v

\* C16 (as stated): for a call with forceAuthentic = true or a fileName
\* containing "webcam-capture", mlResults is the fixed authentic tuple and no
\* specificMetrics field carries a value returned by the classifier.
C16_OverrideOnForcedOrWebcamName ==
    \A c \in Slots :
        (HasSettled(c) /\ (calls[c].forceAuthentic
                            \/ Includes(calls[c].fileName, StrWebcamCapture)))
        => /\ calls[c].mlResults = FixedAuthenticTuple
           /\ ~CarriesClassifierValue(calls[c])

\* C16 (amended): for a call with forceAuthentic = true, mlResults is the
\* fixed authentic tuple, the classifier is not invoked and no
\* specificMetrics field carries a value returned by the classifier; for a
\* call whose fileName contains "webcam-capture" but is not forced, mlResults
\* is what the classifier stage left (the adapter's tuple if it was invoked,
\* else the zeroed defaults).
C16_OverrideOnForced ==
    \A c \in Slots :
        HasSettled(c) =>
            /\ calls[c].forceAuthentic =>
                  /\ calls[c].mlResults = FixedAuthenticTuple
                  /\ ~calls[c].completion.invoked
                  /\ ~CarriesClassifierValue(calls[c])
            /\ (~calls[c].forceAuthentic /\ Includes(calls[c].fileName, StrWebcamCapture)) =>
                  calls[c].mlResults = (IF calls[c].completion.invoked
                                        THEN calls[c].completion.value
                                        ELSE DefaultMl)

\* C16 witness: a forced image call with file data has settled after an
\* unforced call named "webcam-capture.jpg" for which the classifier ran.
C16_Witness ==
    /\ ApiSettled
    /\ calls["api"].forceAuthentic
    /\ calls["api"].type = "image"
    /\ calls["api"].fileData # NoFile
    /\ prev.pc # "none"
    /\ ~prev.forceAuthentic
    /\ prev.fileName = NameWebcamCapture
    /\ prev.event = "ok"

\* C17: for a call that is neither forced nor named "webcam-capture": with a
\* classifier signal (mlResults.confidence > 0) isDeepfake is the
\* classifier's verdict and authenticity is 35 + 15*s when deepfake, else
\* 80 + 10*s for video and 75 + 15*s for image and audio; without a signal
\* authenticity is 50 + 40*s and isDeepfake holds exactly when
\* manipulationProbability > 60 (s = sin(5*seed)).
C17_BranchTable ==
    \A c \in Slots :
        (/\ HasSettled(c)
         /\ ~calls[c].forceAuthentic
         /\ ~Includes(calls[c].fileName, StrWebcamCapture))
        => LET ml == calls[c].mlResults
               r == calls[c].result
               s == SinMilli(5 * (CharSum(calls[c].fileName)
                                   + (IF calls[c].fileData = NoFile THEN 0
                                      ELSE calls[c].fileData.size % 1000)))
               a == r.baseMetrics.authenticity
           IN  IF ml.confidence > 0
               THEN /\ r.isDeepfake = ml.isDeepfake
                    /\ a = IF ml.isDeepfake THEN 35000 + 15 * s
                           ELSE IF calls[c].type = "video" THEN 80000 + 10 * s
                           ELSE 75000 + 15 * s
               ELSE /\ a = 50000 + 40 * s
                    /\ r.isDeepfake = (r.baseMetrics.manipulationProbability > 60000)

\* C17 witness: a video call for which the classifier gave a signal and an
\* authentic verdict has settled with an authenticity above 85.
C17_Witness ==
    /\ ApiSettled
    /\ calls["api"].type = "video"
    /\ ~calls["api"].forceAuthentic
    /\ ~Includes(calls["api"].fileName, StrWebcamCapture)
    /\ calls["api"].mlResults.confidence > 0
    /\ ~calls["api"].mlResults.isDeepfake
    /\ calls["api"].result.baseMetrics.authenticity > 85000

\* the step takes the fulfilled result of the webcam call / of the file call
\* out of the await
CamResultTaken == calls["cam"].pc = "fulfilled" /\ calls'["cam"].pc = "idle"
FileResultTaken == calls["file"].pc = "fulfilled" /\ calls'["file"].pc = "idle"

\* the values the webcam rewrite gives isDeepfake, baseMetrics and the
\* specificMetrics of an image
RewrittenToAuthentic(r) ==
    /\ r.isDeepfake = FALSE
    /\ r.baseMetrics = [authenticity |-> 95000, manipulationProbability |-> 5000,
                        confidence |-> 98000]
    /\ r.specificMetrics = [metadataConsistency |-> 95000, lightingConsistency |-> 98000,
                            textureAnalysis |-> 97000, pixelAnomalies |-> 10000,
                            neuralInconsistency |-> 8000]

\* r has the fields `fields` as g has them
SameOn(fields, r, g) == \A f \in fields : r[f] = g[f]

\* a result reaches analysisResults as the handler that awaited it held it
StoredAsHeld ==
    (analysisResults' # analysisResults /\ analysisResults' # NoResult)
        => analysisResults' \in {fileTask.results, cam.results}

\* C18 (as stated): a result is changed after generateAnalysisResults
\* returned it only by the webcam handler, which rewrites exactly isDeepfake,
\* baseMetrics and specificMetrics to fixed authentic values and leaves
\* overallResult, confidenceInterval, detailedExplanation, mediaType,
\* fileName, datasetReference, analysisVersion and downloadable as generated;
\* a file-upload result is stored unmodified.
C18_RewriteLeavesOverallResult ==
    [][/\ CamResultTaken =>
             /\ RewrittenToAuthentic(cam'.results)
             /\ SameOn({"overallResult", "confidenceInterval", "detailedExplanation",
                        "mediaType", "fileName", "datasetReference", "analysisVersion",
                        "downloadable"}, cam'.results, calls["cam"].result)
       /\ FileResultTaken => fileTask'.results = calls["file"].result
       /\ StoredAsHeld]_vars

\* C18 (amended): ... the webcam handler rewrites exactly isDeepfake,
\* overallResult (to "Analysis Complete - Authentic Content"), baseMetrics
\* and specificMetrics, and leaves confidenceInterval, detailedExplanation,
\* mediaType, fileName, datasetReference, analysisVersion and downloadable as
\* generated; a file-upload result is stored unmodified.
C18_RewriteFrame ==
    [][/\ CamResultTaken =>
             /\ RewrittenToAuthentic(cam'.results)
             /\ cam'.results.overallResult = "Analysis Complete - Authentic Content"
             /\ SameOn({"confidenceInterval", "detailedExplanation",
                        "mediaType", "fileName", "datasetReference", "analysisVersion",
                        "downloadable"}, cam'.results, calls["cam"].result)
       /\ FileResultTaken => fileTask'.results = calls["file"].result
       /\ StoredAsHeld]_vars

\* C18 witness: the webcam handler holds a rewritten result while the result
\* of a file upload is shown.
C18_Witness ==
    /\ cam.pc = "timeout"
    /\ cam.results # NoResult
    /\ cam.results.overallResult = "Analysis Complete - Authentic Content"
    /\ analysisResults # NoResult
    /\ analysisResults.overallResult # "Analysis Complete - Authentic Content"

\* the step is the resolution of the pipeline() awaited by call c
PipelineResolved(c) == calls[c].pc = "pipeline" /\ calls'[c].pc = "infer"

\* C19: in overlapping calls the lazy initialization is unguarded: a call
\* that found classifier null awaits pipeline() whatever the other call
\* does; when its pipeline() resolves, classifier becomes its instance
\* (the last assignment wins) and it runs the inference on that instance;
\* classifier is never set back to null, and a call reaches the inference
\* only with a detector that is not null.
C19_UnguardedLazyInit ==
    [][\A c \in DirectSlots :
          /\ PipelineResolved(c) => (classifier' = c /\ calls'[c].detector = c)
          /\ classifier # Null => classifier' # Null
          /\ calls'[c].pc = "infer" => calls'[c].detector # Null
          /\ (calls[c].pc = "infer" /\ calls'[c].pc # "idle") =>
                calls'[c].detector = calls[c].detector]_vars

\* C19 witness: both calls awaited pipeline(); the first one's resolved, then
\* the second one's: classifier is the second call's instance while the
\* first call is at its inference with its own instance.
C19_Witness ==
    /\ calls["api"].pc = "infer"
    /\ calls["api"].detector = "api"
    /\ calls["api2"].pc = "infer"
    /\ calls["api2"].detector = "api2"
    /\ classifier = "api2"

\* a file analysis shows as running or its progress interval still ticks
FileBusy == isAnalyzing \/ fileTask.interval

\* a webcam analysis shows as running or its progress interval still ticks
CamBusy == cam.isAnalyzing \/ cam.interval

\* C20: provided the pending classifier calls settle and due timers fire,
\* every file analysis and every webcam analysis that was started reaches
\* isAnalyzing = false, and its progress interval is cleared.
C20_AnalysesTerminate ==
    /\ FileBusy ~> ~FileBusy
    /\ CamBusy ~> ~CamBusy

\* C20 witness: a file analysis whose pipeline() had rejected has ended: the
\* 500 ms timer cleared the busy flag, the interval is cleared.
C20_Witness ==
    /\ last.handler = "handleAnalyze.setTimeout"
    /\ ~isAnalyzing
    /\ ~fileTask.interval
    /\ analysisResults # NoResult
    /\ classifier = Null

----------------------------------------------------------------------------
(* C21 *)

\* the handler that ran last was resetAnalysis or handleTabChange
JustReset == last.handler \in {"resetAnalysis", "handleTabChange"}

\* this step stores a result in analysisResults
WritesResult == analysisResults' # NoResult /\ analysisResults' # analysisResults

\* C21: a held result is discarded on reset.  Right after resetAnalysis or a
\* tab change analysisResults and selectedFile are null and analysisProgress
\* is 0; analysisResults stays null until a new analysis is started, so the
\* step after the reset stores no result; and no analysis started before a
\* reset stores its result afterwards, so a file analysis stores its result
\* only while the file it analysed is still the selected file of its tab.
C21_ResetDiscards ==
    [][/\ JustReset' =>
            /\ analysisResults' = NoResult
            /\ selectedFile' = NoFile
            /\ analysisProgress' = 0
       /\ JustReset => ~WritesResult
       /\ (WritesResult /\ last'.handler = "handleAnalyze.setTimeout") =>
            /\ selectedFile # NoFile
            /\ selectedFile.name = analysisResults'.fileName
            /\ activeTab = analysisResults'.mediaType]_vars

----------------------------------------------------------------------------
(* C22 *)

\* the tuple the adapter returned to call c after a successful inference
InferredFor(c) == calls[c].completion.value

\* C22: on successful inference analyzeImageWithML returns confidence = top
\* label score * 100 (0 for a score of 0), isDeepfake = confidence > 60 unless
\* the input's name contains "webcam", then false; artificialPatterns is the
\* confidence and naturalFeatures 20 when isDeepfake, 20 and the confidence
\* otherwise; textureConsistency is 30 or 85, lighting 25 or 90.
C22_InferenceTuple ==
    \A c \in Slots :
        (HasSettled(c) /\ calls[c].event = "ok") =>
            LET score == calls[c].fileData.score
                named == Includes(calls[c].fileData.name, StrWebcam)
                ml == InferredFor(c)
            IN  /\ ml.confidence = score * 1000
                /\ ml.isDeepfake = (~named /\ score > 60)
                /\ ml.isDeepfake =>
                      /\ ml.features.artificialPatterns = ml.confidence
                      /\ ml.features.naturalFeatures = 20000
                      /\ ml.features.textureConsistency = 30000
                      /\ ml.features.lighting = 25000
                /\ ~ml.isDeepfake =>
                      /\ ml.features.artificialPatterns = 20000
                      /\ ml.features.naturalFeatures = ml.confidence
                      /\ ml.features.textureConsistency = 85000
                      /\ ml.features.lighting = 90000

\* C22 witness: the classifier scored a file named "webcam-capture.jpg" at
\* 100 and the adapter reported it as not a deepfake, with naturalFeatures 100.
C22_Witness ==
    /\ ApiSettled
    /\ calls["api"].event = "ok"
    /\ calls["api"].fileData.name = NameWebcamCapture
    /\ calls["api"].fileData.score = 100
    /\ ~InferredFor("api").isDeepfake
    /\ InferredFor("api").features.naturalFeatures = 100000

----------------------------------------------------------------------------
(* C23 *)

\* per field of specificMetrics: the multiplier of the seed, the forced
\* baseline, and <<base, amplitude>> of the formula for isDeepfake and for
\* not isDeepfake
MetricConstants(mediaType) ==
    IF mediaType = "video"
    THEN [frameConsistency    |-> <<11, 90, <<55, 15>>, <<85, 10>>>>,
          facialAnomaly       |-> <<13, 15, <<67, 20>>, <<25, 15>>>>,
          audioVideoSync      |-> <<17, 92, <<48, 20>>, <<88, 10>>>>,
          temporalCoherence   |-> <<19, 88, <<52, 15>>, <<82, 10>>>>,
          neuralInconsistency |-> <<23, 18, <<75, 15>>, <<30, 20>>>>]
    ELSE IF mediaType = "audio"
    THEN [voicePrintAuthenticity  |-> <<11, 90, <<45, 15>>, <<85, 10>>>>,
          backgroundNoiseAnalysis |-> <<13, 20, <<60, 15>>, <<25, 10>>>>,
          frequencyAnomalies      |-> <<17, 15, <<72, 15>>, <<30, 10>>>>,
          prosodyConsistency      |-> <<19, 88, <<48, 15>>, <<82, 10>>>>,
          spectrogramPatterns     |-> <<23, 22, <<70, 15>>, <<32, 15>>>>]
    ELSE [metadataConsistency |-> <<11, 90, <<55, 15>>, <<80, 15>>>>,
          pixelAnomalies      |-> <<13, 15, <<65, 20>>, <<30, 15>>>>,
          lightingConsistency |-> <<17, 92, <<45, 20>>, <<75, 15>>>>,
          textureAnalysis     |-> <<19, 88, <<40, 15>>, <<82, 10>>>>,
          neuralInconsistency |-> <<23, 20, <<72, 15>>, <<25, 15>>>>]

\* the value of the isDeepfake-keyed formula of field f for the settled call
KeyedFormula(call, f) ==
    LET k == MetricConstants(call.type)[f]
        ba == IF call.result.isDeepfake THEN k[3] ELSE k[4]
    IN  ba[1] * 1000 + ba[2] * SinMilli(Seed(call.fileName, call.fileData) * k[1])

\* C23: with forceAuthentic each of the 5 fields of specificMetrics is within
\* 5 of its fixed baseline; otherwise a field with a designated classifier
\* feature equals that feature whenever it is nonzero and the
\* isDeepfake-keyed formula when it is zero, and video audioVideoSync and
\* every audio field equal the formula whatever the classifier returned.
C23_MetricsSelection ==
    \A c \in Slots :
        HasSettled(c) =>
            LET call == calls[c]
                m == call.result.specificMetrics
                behind == FeatureBehind(call.type)
            IN  /\ DOMAIN m = DOMAIN MetricConstants(call.type)
                /\ Cardinality(DOMAIN m) = 5
                /\ \A f \in DOMAIN m :
                      IF call.forceAuthentic
                      THEN /\ m[f] >= (MetricConstants(call.type)[f][2] - 5) * 1000
                           /\ m[f] <= (MetricConstants(call.type)[f][2] + 5) * 1000
                      ELSE IF f \in DOMAIN behind
                                /\ ClassifierStage(call.completion).features[behind[f]] # 0
                      THEN m[f] = ClassifierStage(call.completion).features[behind[f]]
                      ELSE m[f] = KeyedFormula(call, f)

\* C23 witness: an image scored 0 by the classifier, not forced: its
\* metadataConsistency (naturalFeatures = 0) is the formula's value while its
\* textureAnalysis is the classifier's textureConsistency, 85.
C23_Witness ==
    /\ ApiSettled
    /\ ~calls["api"].forceAuthentic
    /\ calls["api"].event = "ok"
    /\ calls["api"].type = "image"
    /\ calls["api"].completion.value.features.naturalFeatures = 0
    /\ calls["api"].result.specificMetrics.textureAnalysis = 85000
    /\ calls["api"].result.specificMetrics.metadataConsistency = KeyedFormula(calls["api"], "metadataConsistency")
    /\ calls["api"].result.specificMetrics.metadataConsistency # 0

----------------------------------------------------------------------------
(* C24 *)

\* the MIME type belongs to the media kind of the tab and is one of the
\* three types listed for it
Allowed(tab, mime) ==
    \/ tab = "video" /\ mime \in {"video/mp4", "video/webm", "video/quicktime"}
    \/ tab = "audio" /\ mime \in {"audio/mpeg", "audio/wav", "audio/ogg"}
    \/ tab = "image" /\ mime \in {"image/jpeg", "image/png", "image/gif"}

\* C24: whenever selectedFile is non-null its MIME type is in the allowlist
\* of the active tab; a rejected selection leaves selectedFile unchanged; and
\* the file handleAnalyze submits has a type allowed for the media type it
\* is submitted as.
C24_SelectedFileAllowed ==
    /\ [](selectedFile # NoFile => Allowed(activeTab, selectedFile.mime))
    /\ [][/\ last'.toast = "Invalid file type" => selectedFile' = selectedFile
          /\ last'.handler = "handleAnalyze" =>
                /\ calls'["file"].pc # "idle"
                /\ calls'["file"].fileData = selectedFile
                /\ Allowed(calls'["file"].type, calls'["file"].fileData.mime)]_vars

\* C24 witness: in the image tab, entered by a tab change, a PNG is selected
\* and its analysis is under way, the classifier call pending.
C24_Witness ==
    /\ activeTab = "image"
    /\ selectedFile # NoFile
    /\ selectedFile.mime = "image/png"
    /\ fileTask.pc = "awaiting"
    /\ calls["file"].pc \in {"pipeline", "infer"}

----------------------------------------------------------------------------
(* C25 *)

\* C25: in every result returned by generateAnalysisResults, isDeepfake =
\* true implies authenticity <= 50 and manipulationProbability >= 50, and
\* isDeepfake = false implies authenticity >= 40 and manipulationProbability
\* <= 60, on every branch and for every media type.
C25_VerdictCoherent ==
    \A c \in Slots :
        HasSettled(c) =>
            LET r == calls[c].result
            IN  /\ r.isDeepfake =>
                      /\ r.baseMetrics.authenticity <= 50000
                      /\ r.baseMetrics.manipulationProbability >= 50000
                /\ ~r.isDeepfake =>
                      /\ r.baseMetrics.authenticity >= 40000
                      /\ r.baseMetrics.manipulationProbability <= 60000

\* C25 witness: a result without a classifier signal whose authenticity is
\* between 40 and 50 and which is not a deepfake.
C25_Witness ==
    /\ ApiSettled
    /\ ~calls["api"].forceAuthentic
    /\ ~calls["api"].completion.invoked
    /\ ~calls["api"].result.isDeepfake
    /\ calls["api"].result.baseMetrics.authenticity >= 40000
    /\ calls["api"].result.baseMetrics.authenticity < 50000

----------------------------------------------------------------------------
(* C26 *)

\* C26: in every result held in analysisResults, each percentage quoted in
\* detailedExplanation equals the rounded value of the specificMetrics field
\* of that same result it is quoted for.
C26_ExplanationQuotesMetrics ==
    analysisResults # NoResult =>
        \A i \in DOMAIN analysisResults.detailedExplanation.quotes :
            LET quote == analysisResults.detailedExplanation.quotes[i]
            IN  quote.percent = Round(analysisResults.specificMetrics[quote.field])

----------------------------------------------------------------------------
(* C27 *)

\* C27: whenever analysisResults is non-null, its mediaType equals the
\* currently active tab, after any sequence of tab changes, file analyses and
\* webcam analyses started from the video or image tab.
C27_ResultMatchesTab ==
    analysisResults # NoResult => analysisResults.mediaType = activeTab

----------------------------------------------------------------------------
(* C28 *)

\* this step is a tick of the progress interval of handleAnalyze
ProgressTick == last'.handler = "handleAnalyze.setInterval"

----------------------------------------------------------------------------
(* C29 *)

\* C29: in every reachable state of WebcamAnalyzer, webcamReady = true
\* implies webcamError = null, for every ordering of the 5 s initialization
\* timeout, the 1.5 s readiness check, onUserMedia with its 1 s delay,
\* onUserMediaError, close and retry.
C29_ReadyImpliesNoError ==
    cam.webcamReady => cam.webcamError = Null

----------------------------------------------------------------------------
(* C30 *)

\* C30: for a webcam-verified result rendered by AnalysisMetrics (the
\* result view of the video tab), every specific metric is marked as a good
\* value: no metric of a verified-authentic capture is shown as danger.
C30_VerifiedMetricsGood ==
    (WebcamResultShown /\ activeTab = "video") =>
        \A key \in DOMAIN analysisResults.specificMetrics :
            AnalysisMetrics(analysisResults)[key] = "cyber-success"

====
